---- MODULE Spec2Model ----
\* Model of whisper-meetings' streaming core: the VAD speech segmenter
\* (streaming.py), and the per-connection receive loop, dispatch queue and
\* transcription worker (server.py).
EXTENDS Integers, Sequences, FiniteSets, TLC

\* ---------------------------------------------------------------------------
\* Program constants (streaming.py, server.py)
\* ---------------------------------------------------------------------------
FRAME_MS == 20
FRAME_SAMPLES == 320
FRAME_BYTES == FRAME_SAMPLES * 2
PRE_ROLL_MS == 300
SILENCE_HANGOVER_MS == 600
MIN_UTTERANCE_MS == 800
MAX_UTTERANCE_MS == 8000
PARTIAL_INTERVAL_MS == 1000
PARTIAL_WINDOW_MS == 2500
MAX_PARTIAL_BACKLOG == 3
MAX_TITLE_WORDS == 8

\* VADSegmenter.__init__: frame counts derived from the millisecond constants
pre_roll_frames == PRE_ROLL_MS \div FRAME_MS
silence_hangover_frames == SILENCE_HANGOVER_MS \div FRAME_MS
min_utterance_frames == MIN_UTTERANCE_MS \div FRAME_MS
max_utterance_frames == MAX_UTTERANCE_MS \div FRAME_MS
partial_interval_frames == PARTIAL_INTERVAL_MS \div FRAME_MS
partial_window_frames == PARTIAL_WINDOW_MS \div FRAME_MS

\* ---------------------------------------------------------------------------
\* Bounds of the model
\* ---------------------------------------------------------------------------
\* session.start messages accepted on the connection
MaxSessions == 2
\* audio frames accepted on the connection
MaxAudioFrames == 80
\* calls of persist_session after which no further session.stop is accepted
MaxStops == 2
\* protocol-error messages (bad frame, bad JSON, unknown type) on the connection
MaxProtocolErrors == 1
\* audio frames accepted on the connection in the backlog scenario, which has
\* a single session
MaxBacklogFrames == 140

\* frames of audio accepted in the long-speech scenario, and the length of
\* its speech run
MaxLongFrames == 235
LongSpeechRun == 200
\* audio frames accepted on the connection in the protocol-error scenario
MaxProtocolFrames == 40
\* lengths of the runs of speech / silence classifications the VAD produces
SpeechRuns == {20}
SilenceRuns == {30}
\* VAD runs and calls (flush, reset, bad frame) made on a segmenter that is
\* driven on its own
MaxSegSteps == 4
\* lengths of the runs of speech / silence classifications the VAD produces for
\* a segmenter that is driven on its own
SegSpeechRuns == {5, 200}
SegSilenceRuns == {10, 30}
\* sizes of the frames of a wrong size pushed to the segmenter
BadFrameSizes == {0, FRAME_BYTES - 1, FRAME_BYTES + 1}
\* samples of the audio passed to transcribe_pcm_bytes on its own
MaxSamples == 2
\* calls of the engine whose outcome is drawn for a run of the command line
MaxEngineCalls == 3
\* texts the transcription step can return: empty (filtered) or words
EngineTexts == {<< >>, <<1>>}

\* ---------------------------------------------------------------------------
\* Small helpers
\* ---------------------------------------------------------------------------
Min(a, b) == IF a <= b THEN a ELSE b

Last(s) == s[Len(s)]

\* s[-n:] of Python
Suffix(s, n) == IF Len(s) <= n THEN s ELSE SubSeq(s, Len(s) - n + 1, Len(s))

\* ---------------------------------------------------------------------------
\* streaming.py: SegmentTask and VADSegmenter
\* ---------------------------------------------------------------------------
\* the queue's shutdown sentinel (None)
NoTask == [kind |-> "none", segment_id |-> 0, pcm_bytes |-> << >>]

SegmentTask(kind, segment_id, pcm_bytes) ==
    [kind |-> kind, segment_id |-> segment_id, pcm_bytes |-> pcm_bytes]

\* VADSegmenter.__init__
NewSegmenter ==
    [pre_roll |-> << >>, speech_frames |-> << >>, in_speech |-> FALSE,
     silence_run |-> 0, last_partial_at |-> 0, segment_id |-> 0]

\* reset() as it would be without self._pre_roll.clear()
Reset_KeepsPreRoll(s) ==
    [s EXCEPT !.speech_frames = << >>, !.in_speech = FALSE,
              !.silence_run = 0, !.last_partial_at = 0]

\* VADSegmenter.reset
Reset(s) ==
    [s EXCEPT !.pre_roll = << >>, !.speech_frames = << >>, !.in_speech = FALSE,
              !.silence_run = 0, !.last_partial_at = 0]

\* the append as it would be on a deque without maxlen
PreRollAppend_Unbounded(d, frame) == Append(d, frame)

\* deque(maxlen=pre_roll_frames).append
PreRollAppend(d, frame) ==
    IF Len(d) >= pre_roll_frames THEN Append(Tail(d), frame) ELSE Append(d, frame)

\* _start_utterance as it would be if it started from an empty buffer
StartUtterance_WithoutPreRoll(s) ==
    [s EXCEPT !.in_speech = TRUE, !.silence_run = 0, !.last_partial_at = 0,
              !.speech_frames = << >>]

\* VADSegmenter._start_utterance
StartUtterance(s) ==
    [s EXCEPT !.in_speech = TRUE, !.silence_run = 0, !.last_partial_at = 0,
              !.speech_frames = s.pre_roll]

\* _window_pcm_bytes as it would be without the slice
WindowPcmBytes_Whole(s) == s.speech_frames

\* VADSegmenter._window_pcm_bytes
WindowPcmBytes(s) == Suffix(s.speech_frames, partial_window_frames)

\* _finalize_utterance as it would be without self._segment_id += 1
FinalizeUtterance_KeepsId(s, force) ==
    LET utterance_len == Len(s.speech_frames)
        dropped == [s EXCEPT !.in_speech = FALSE, !.speech_frames = << >>,
                             !.silence_run = 0]
    IN  IF utterance_len < min_utterance_frames
        THEN [seg |-> dropped, task |-> NoTask]
        ELSE [seg |-> [s EXCEPT !.in_speech = FALSE, !.speech_frames = << >>,
                                !.silence_run = 0, !.last_partial_at = 0],
              task |-> SegmentTask("final", s.segment_id, s.speech_frames)]

\* VADSegmenter._finalize_utterance: the new state and the task (NoTask for None)
FinalizeUtterance(s, force) ==
    LET utterance_len == Len(s.speech_frames)
        dropped == [s EXCEPT !.in_speech = FALSE, !.speech_frames = << >>,
                             !.silence_run = 0]
    IN  IF utterance_len < min_utterance_frames /\ ~force
        THEN [seg |-> dropped, task |-> NoTask]
        ELSE IF utterance_len < min_utterance_frames
        THEN [seg |-> dropped, task |-> NoTask]
        ELSE [seg |-> [s EXCEPT !.segment_id = s.segment_id + 1,
                                !.in_speech = FALSE, !.speech_frames = << >>,
                                !.silence_run = 0, !.last_partial_at = 0],
              task |-> SegmentTask("final", s.segment_id, s.speech_frames)]

\* [final_task] if final_task is not None else []
TaskList(task) == IF task = NoTask THEN << >> ELSE <<task>>

\* line 165 as it would be with > for >=
CapReached_OffByOne(utterance_len) == utterance_len > max_utterance_frames

\* line 165: utterance_len >= self.max_utterance_frames
CapReached(utterance_len) == utterance_len >= max_utterance_frames

\* lines 122-125 as they would be if they came after the pre-roll append
FrameSizeError_AfterPreRoll(s, frame) ==
    [seg |-> [s EXCEPT !.pre_roll = PreRollAppend(s.pre_roll, frame)],
     tasks |-> << >>, error |-> TRUE]

\* lines 122-125: ValueError is raised before any statement touched the state
FrameSizeError(s, frame) == [seg |-> s, tasks |-> << >>, error |-> TRUE]

\* VADSegmenter.push_frame on a frame of `size` bytes with content `frame`,
\* classified `is_speech` by the VAD: the new state, the tasks returned and
\* whether ValueError was raised
PushFrame(s, frame, size, is_speech) ==
    IF size # FRAME_BYTES
    THEN FrameSizeError(s, frame)
    ELSE
    LET s1 == [s EXCEPT !.pre_roll = PreRollAppend(s.pre_roll, frame)]
    IN  IF ~s1.in_speech
        THEN [seg |-> IF is_speech THEN StartUtterance(s1) ELSE s1,
              tasks |-> << >>, error |-> FALSE]
        ELSE
        LET s2 == [s1 EXCEPT !.speech_frames = Append(s1.speech_frames, frame),
                             !.silence_run = IF is_speech THEN 0
                                             ELSE s1.silence_run + 1]
            utterance_len == Len(s2.speech_frames)
            emit == /\ utterance_len >= min_utterance_frames
                    /\ utterance_len - s2.last_partial_at >= partial_interval_frames
            partial == IF emit
                       THEN <<SegmentTask("partial", s2.segment_id, WindowPcmBytes(s2))>>
                       ELSE << >>
            s3 == IF emit THEN [s2 EXCEPT !.last_partial_at = utterance_len] ELSE s2
        IN  IF s3.silence_run >= silence_hangover_frames
            THEN LET f == FinalizeUtterance(s3, FALSE)
                 IN  [seg |-> f.seg, tasks |-> partial \o TaskList(f.task),
                      error |-> FALSE]
            ELSE IF CapReached(utterance_len)
            THEN LET f == FinalizeUtterance(s3, TRUE)
                 IN  [seg |-> f.seg, tasks |-> partial \o TaskList(f.task),
                      error |-> FALSE]
            ELSE [seg |-> s3, tasks |-> partial, error |-> FALSE]

\* VADSegmenter.flush
Flush(s) ==
    IF ~s.in_speech
    THEN [seg |-> s, tasks |-> << >>]
    ELSE LET f == FinalizeUtterance(s, TRUE)
         IN  [seg |-> f.seg, tasks |-> TaskList(f.task)]

\* title_from_text: the first max_words words ("" when there is none)
TitleFromText(text) == SubSeq(text, 1, Min(Len(text), MAX_TITLE_WORDS))


\* ---------------------------------------------------------------------------
\* streaming.py: transcribe_pcm_bytes and the hallucination filter
\* ---------------------------------------------------------------------------
\* A text is a sequence of characters. A printable character of Basic Latin
\* or of Latin-1 is the string of that character ("a", "À"); "\t", "\n", "\f"
\* and "\r" are those four; every other character, the grave accent U+0060
\* among them, is the string of its code point ("U+00A0", "U+0301", "U+2003").
\* A probability in the engine's result is a number of hundredths, standing
\* for the float nearest to it. What the code computes in floating point is
\* computed here in binary floating point of the same precision: 24 bits for
\* numpy's float32, 53 bits for Python's float.
MIN_RMS_FOR_TRANSCRIPTION == 90
MIN_RMS_FOR_KNOWN_HALLUCINATIONS == 230
NO_SPEECH_SUPPRESS_THRESHOLD == 78
NO_SPEECH_HALLUCINATION_THRESHOLD == 45

\* the characters str.lower() changes and what it changes each of them to
\* (Unicode 14.0), for the characters U+0000 to U+052F and U+1E00 to U+1FFF
\* (Latin, Greek and Cyrillic with their extensions) and for U+212A and
\* U+212B. A character outside these is taken for one that str.lower() and
\* NFD leave as it is: no such character is lowered or decomposed to a
\* character of [a-z0-9\s], so that line 301 makes a space of it and of what
\* the code makes of it alike. U+03A3 is lowered to U+03C3 wherever it
\* stands, its other lower case U+03C2 being no character of [a-z0-9\s]
\* either.
UpperCase ==
  <<
    "A", "B", "C", "D", "E", "F", "G", "H", "I", "J", "K", "L", "M", "N", "O", "P",
    "Q", "R", "S", "T", "U", "V", "W", "X", "Y", "Z", "À", "Á", "Â", "Ã", "Ä", "Å",
    "Æ", "Ç", "È", "É", "Ê", "Ë", "Ì", "Í", "Î", "Ï", "Ð", "Ñ", "Ò", "Ó", "Ô", "Õ",
    "Ö", "Ø", "Ù", "Ú", "Û", "Ü", "Ý", "Þ", "U+0100", "U+0102", "U+0104", "U+0106",
    "U+0108", "U+010A", "U+010C", "U+010E", "U+0110", "U+0112", "U+0114", "U+0116",
    "U+0118", "U+011A", "U+011C", "U+011E", "U+0120", "U+0122", "U+0124", "U+0126",
    "U+0128", "U+012A", "U+012C", "U+012E", "U+0130", "U+0132", "U+0134", "U+0136",
    "U+0139", "U+013B", "U+013D", "U+013F", "U+0141", "U+0143", "U+0145", "U+0147",
    "U+014A", "U+014C", "U+014E", "U+0150", "U+0152", "U+0154", "U+0156", "U+0158",
    "U+015A", "U+015C", "U+015E", "U+0160", "U+0162", "U+0164", "U+0166", "U+0168",
    "U+016A", "U+016C", "U+016E", "U+0170", "U+0172", "U+0174", "U+0176", "U+0178",
    "U+0179", "U+017B", "U+017D", "U+0181", "U+0182", "U+0184", "U+0186", "U+0187",
    "U+0189", "U+018A", "U+018B", "U+018E", "U+018F", "U+0190", "U+0191", "U+0193",
    "U+0194", "U+0196", "U+0197", "U+0198", "U+019C", "U+019D", "U+019F", "U+01A0",
    "U+01A2", "U+01A4", "U+01A6", "U+01A7", "U+01A9", "U+01AC", "U+01AE", "U+01AF",
    "U+01B1", "U+01B2", "U+01B3", "U+01B5", "U+01B7", "U+01B8", "U+01BC", "U+01C4",
    "U+01C5", "U+01C7", "U+01C8", "U+01CA", "U+01CB", "U+01CD", "U+01CF", "U+01D1",
    "U+01D3", "U+01D5", "U+01D7", "U+01D9", "U+01DB", "U+01DE", "U+01E0", "U+01E2",
    "U+01E4", "U+01E6", "U+01E8", "U+01EA", "U+01EC", "U+01EE", "U+01F1", "U+01F2",
    "U+01F4", "U+01F6", "U+01F7", "U+01F8", "U+01FA", "U+01FC", "U+01FE", "U+0200",
    "U+0202", "U+0204", "U+0206", "U+0208", "U+020A", "U+020C", "U+020E", "U+0210",
    "U+0212", "U+0214", "U+0216", "U+0218", "U+021A", "U+021C", "U+021E", "U+0220",
    "U+0222", "U+0224", "U+0226", "U+0228", "U+022A", "U+022C", "U+022E", "U+0230",
    "U+0232", "U+023A", "U+023B", "U+023D", "U+023E", "U+0241", "U+0243", "U+0244",
    "U+0245", "U+0246", "U+0248", "U+024A", "U+024C", "U+024E", "U+0370", "U+0372",
    "U+0376", "U+037F", "U+0386", "U+0388", "U+0389", "U+038A", "U+038C", "U+038E",
    "U+038F", "U+0391", "U+0392", "U+0393", "U+0394", "U+0395", "U+0396", "U+0397",
    "U+0398", "U+0399", "U+039A", "U+039B", "U+039C", "U+039D", "U+039E", "U+039F",
    "U+03A0", "U+03A1", "U+03A3", "U+03A4", "U+03A5", "U+03A6", "U+03A7", "U+03A8",
    "U+03A9", "U+03AA", "U+03AB", "U+03CF", "U+03D8", "U+03DA", "U+03DC", "U+03DE",
    "U+03E0", "U+03E2", "U+03E4", "U+03E6", "U+03E8", "U+03EA", "U+03EC", "U+03EE",
    "U+03F4", "U+03F7", "U+03F9", "U+03FA", "U+03FD", "U+03FE", "U+03FF", "U+0400",
    "U+0401", "U+0402", "U+0403", "U+0404", "U+0405", "U+0406", "U+0407", "U+0408",
    "U+0409", "U+040A", "U+040B", "U+040C", "U+040D", "U+040E", "U+040F", "U+0410",
    "U+0411", "U+0412", "U+0413", "U+0414", "U+0415", "U+0416", "U+0417", "U+0418",
    "U+0419", "U+041A", "U+041B", "U+041C", "U+041D", "U+041E", "U+041F", "U+0420",
    "U+0421", "U+0422", "U+0423", "U+0424", "U+0425", "U+0426", "U+0427", "U+0428",
    "U+0429", "U+042A", "U+042B", "U+042C", "U+042D", "U+042E", "U+042F", "U+0460",
    "U+0462", "U+0464", "U+0466", "U+0468", "U+046A", "U+046C", "U+046E", "U+0470",
    "U+0472", "U+0474", "U+0476", "U+0478", "U+047A", "U+047C", "U+047E", "U+0480",
    "U+048A", "U+048C", "U+048E", "U+0490", "U+0492", "U+0494", "U+0496", "U+0498",
    "U+049A", "U+049C", "U+049E", "U+04A0", "U+04A2", "U+04A4", "U+04A6", "U+04A8",
    "U+04AA", "U+04AC", "U+04AE", "U+04B0", "U+04B2", "U+04B4", "U+04B6", "U+04B8",
    "U+04BA", "U+04BC", "U+04BE", "U+04C0", "U+04C1", "U+04C3", "U+04C5", "U+04C7",
    "U+04C9", "U+04CB", "U+04CD", "U+04D0", "U+04D2", "U+04D4", "U+04D6", "U+04D8",
    "U+04DA", "U+04DC", "U+04DE", "U+04E0", "U+04E2", "U+04E4", "U+04E6", "U+04E8",
    "U+04EA", "U+04EC", "U+04EE", "U+04F0", "U+04F2", "U+04F4", "U+04F6", "U+04F8",
    "U+04FA", "U+04FC", "U+04FE", "U+0500", "U+0502", "U+0504", "U+0506", "U+0508",
    "U+050A", "U+050C", "U+050E", "U+0510", "U+0512", "U+0514", "U+0516", "U+0518",
    "U+051A", "U+051C", "U+051E", "U+0520", "U+0522", "U+0524", "U+0526", "U+0528",
    "U+052A", "U+052C", "U+052E", "U+1E00", "U+1E02", "U+1E04", "U+1E06", "U+1E08",
    "U+1E0A", "U+1E0C", "U+1E0E", "U+1E10", "U+1E12", "U+1E14", "U+1E16", "U+1E18",
    "U+1E1A", "U+1E1C", "U+1E1E", "U+1E20", "U+1E22", "U+1E24", "U+1E26", "U+1E28",
    "U+1E2A", "U+1E2C", "U+1E2E", "U+1E30", "U+1E32", "U+1E34", "U+1E36", "U+1E38",
    "U+1E3A", "U+1E3C", "U+1E3E", "U+1E40", "U+1E42", "U+1E44", "U+1E46", "U+1E48",
    "U+1E4A", "U+1E4C", "U+1E4E", "U+1E50", "U+1E52", "U+1E54", "U+1E56", "U+1E58",
    "U+1E5A", "U+1E5C", "U+1E5E", "U+1E60", "U+1E62", "U+1E64", "U+1E66", "U+1E68",
    "U+1E6A", "U+1E6C", "U+1E6E", "U+1E70", "U+1E72", "U+1E74", "U+1E76", "U+1E78",
    "U+1E7A", "U+1E7C", "U+1E7E", "U+1E80", "U+1E82", "U+1E84", "U+1E86", "U+1E88",
    "U+1E8A", "U+1E8C", "U+1E8E", "U+1E90", "U+1E92", "U+1E94", "U+1E9E", "U+1EA0",
    "U+1EA2", "U+1EA4", "U+1EA6", "U+1EA8", "U+1EAA", "U+1EAC", "U+1EAE", "U+1EB0",
    "U+1EB2", "U+1EB4", "U+1EB6", "U+1EB8", "U+1EBA", "U+1EBC", "U+1EBE", "U+1EC0",
    "U+1EC2", "U+1EC4", "U+1EC6", "U+1EC8", "U+1ECA", "U+1ECC", "U+1ECE", "U+1ED0",
    "U+1ED2", "U+1ED4", "U+1ED6", "U+1ED8", "U+1EDA", "U+1EDC", "U+1EDE", "U+1EE0",
    "U+1EE2", "U+1EE4", "U+1EE6", "U+1EE8", "U+1EEA", "U+1EEC", "U+1EEE", "U+1EF0",
    "U+1EF2", "U+1EF4", "U+1EF6", "U+1EF8", "U+1EFA", "U+1EFC", "U+1EFE", "U+1F08",
    "U+1F09", "U+1F0A", "U+1F0B", "U+1F0C", "U+1F0D", "U+1F0E", "U+1F0F", "U+1F18",
    "U+1F19", "U+1F1A", "U+1F1B", "U+1F1C", "U+1F1D", "U+1F28", "U+1F29", "U+1F2A",
    "U+1F2B", "U+1F2C", "U+1F2D", "U+1F2E", "U+1F2F", "U+1F38", "U+1F39", "U+1F3A",
    "U+1F3B", "U+1F3C", "U+1F3D", "U+1F3E", "U+1F3F", "U+1F48", "U+1F49", "U+1F4A",
    "U+1F4B", "U+1F4C", "U+1F4D", "U+1F59", "U+1F5B", "U+1F5D", "U+1F5F", "U+1F68",
    "U+1F69", "U+1F6A", "U+1F6B", "U+1F6C", "U+1F6D", "U+1F6E", "U+1F6F", "U+1F88",
    "U+1F89", "U+1F8A", "U+1F8B", "U+1F8C", "U+1F8D", "U+1F8E", "U+1F8F", "U+1F98",
    "U+1F99", "U+1F9A", "U+1F9B", "U+1F9C", "U+1F9D", "U+1F9E", "U+1F9F", "U+1FA8",
    "U+1FA9", "U+1FAA", "U+1FAB", "U+1FAC", "U+1FAD", "U+1FAE", "U+1FAF", "U+1FB8",
    "U+1FB9", "U+1FBA", "U+1FBB", "U+1FBC", "U+1FC8", "U+1FC9", "U+1FCA", "U+1FCB",
    "U+1FCC", "U+1FD8", "U+1FD9", "U+1FDA", "U+1FDB", "U+1FE8", "U+1FE9", "U+1FEA",
    "U+1FEB", "U+1FEC", "U+1FF8", "U+1FF9", "U+1FFA", "U+1FFB", "U+1FFC", "U+212A",
    "U+212B"
  >>
LowerCase ==
  <<
    <<"a">>, <<"b">>, <<"c">>, <<"d">>, <<"e">>, <<"f">>, <<"g">>, <<"h">>, <<"i">>,
    <<"j">>, <<"k">>, <<"l">>, <<"m">>, <<"n">>, <<"o">>, <<"p">>, <<"q">>, <<"r">>,
    <<"s">>, <<"t">>, <<"u">>, <<"v">>, <<"w">>, <<"x">>, <<"y">>, <<"z">>, <<"à">>,
    <<"á">>, <<"â">>, <<"ã">>, <<"ä">>, <<"å">>, <<"æ">>, <<"ç">>, <<"è">>, <<"é">>,
    <<"ê">>, <<"ë">>, <<"ì">>, <<"í">>, <<"î">>, <<"ï">>, <<"ð">>, <<"ñ">>, <<"ò">>,
    <<"ó">>, <<"ô">>, <<"õ">>, <<"ö">>, <<"ø">>, <<"ù">>, <<"ú">>, <<"û">>, <<"ü">>,
    <<"ý">>, <<"þ">>, <<"U+0101">>, <<"U+0103">>, <<"U+0105">>, <<"U+0107">>,
    <<"U+0109">>, <<"U+010B">>, <<"U+010D">>, <<"U+010F">>, <<"U+0111">>, <<"U+0113">>,
    <<"U+0115">>, <<"U+0117">>, <<"U+0119">>, <<"U+011B">>, <<"U+011D">>, <<"U+011F">>,
    <<"U+0121">>, <<"U+0123">>, <<"U+0125">>, <<"U+0127">>, <<"U+0129">>, <<"U+012B">>,
    <<"U+012D">>, <<"U+012F">>, <<"i", "U+0307">>, <<"U+0133">>, <<"U+0135">>,
    <<"U+0137">>, <<"U+013A">>, <<"U+013C">>, <<"U+013E">>, <<"U+0140">>, <<"U+0142">>,
    <<"U+0144">>, <<"U+0146">>, <<"U+0148">>, <<"U+014B">>, <<"U+014D">>, <<"U+014F">>,
    <<"U+0151">>, <<"U+0153">>, <<"U+0155">>, <<"U+0157">>, <<"U+0159">>, <<"U+015B">>,
    <<"U+015D">>, <<"U+015F">>, <<"U+0161">>, <<"U+0163">>, <<"U+0165">>, <<"U+0167">>,
    <<"U+0169">>, <<"U+016B">>, <<"U+016D">>, <<"U+016F">>, <<"U+0171">>, <<"U+0173">>,
    <<"U+0175">>, <<"U+0177">>, <<"ÿ">>, <<"U+017A">>, <<"U+017C">>, <<"U+017E">>,
    <<"U+0253">>, <<"U+0183">>, <<"U+0185">>, <<"U+0254">>, <<"U+0188">>, <<"U+0256">>,
    <<"U+0257">>, <<"U+018C">>, <<"U+01DD">>, <<"U+0259">>, <<"U+025B">>, <<"U+0192">>,
    <<"U+0260">>, <<"U+0263">>, <<"U+0269">>, <<"U+0268">>, <<"U+0199">>, <<"U+026F">>,
    <<"U+0272">>, <<"U+0275">>, <<"U+01A1">>, <<"U+01A3">>, <<"U+01A5">>, <<"U+0280">>,
    <<"U+01A8">>, <<"U+0283">>, <<"U+01AD">>, <<"U+0288">>, <<"U+01B0">>, <<"U+028A">>,
    <<"U+028B">>, <<"U+01B4">>, <<"U+01B6">>, <<"U+0292">>, <<"U+01B9">>, <<"U+01BD">>,
    <<"U+01C6">>, <<"U+01C6">>, <<"U+01C9">>, <<"U+01C9">>, <<"U+01CC">>, <<"U+01CC">>,
    <<"U+01CE">>, <<"U+01D0">>, <<"U+01D2">>, <<"U+01D4">>, <<"U+01D6">>, <<"U+01D8">>,
    <<"U+01DA">>, <<"U+01DC">>, <<"U+01DF">>, <<"U+01E1">>, <<"U+01E3">>, <<"U+01E5">>,
    <<"U+01E7">>, <<"U+01E9">>, <<"U+01EB">>, <<"U+01ED">>, <<"U+01EF">>, <<"U+01F3">>,
    <<"U+01F3">>, <<"U+01F5">>, <<"U+0195">>, <<"U+01BF">>, <<"U+01F9">>, <<"U+01FB">>,
    <<"U+01FD">>, <<"U+01FF">>, <<"U+0201">>, <<"U+0203">>, <<"U+0205">>, <<"U+0207">>,
    <<"U+0209">>, <<"U+020B">>, <<"U+020D">>, <<"U+020F">>, <<"U+0211">>, <<"U+0213">>,
    <<"U+0215">>, <<"U+0217">>, <<"U+0219">>, <<"U+021B">>, <<"U+021D">>, <<"U+021F">>,
    <<"U+019E">>, <<"U+0223">>, <<"U+0225">>, <<"U+0227">>, <<"U+0229">>, <<"U+022B">>,
    <<"U+022D">>, <<"U+022F">>, <<"U+0231">>, <<"U+0233">>, <<"U+2C65">>, <<"U+023C">>,
    <<"U+019A">>, <<"U+2C66">>, <<"U+0242">>, <<"U+0180">>, <<"U+0289">>, <<"U+028C">>,
    <<"U+0247">>, <<"U+0249">>, <<"U+024B">>, <<"U+024D">>, <<"U+024F">>, <<"U+0371">>,
    <<"U+0373">>, <<"U+0377">>, <<"U+03F3">>, <<"U+03AC">>, <<"U+03AD">>, <<"U+03AE">>,
    <<"U+03AF">>, <<"U+03CC">>, <<"U+03CD">>, <<"U+03CE">>, <<"U+03B1">>, <<"U+03B2">>,
    <<"U+03B3">>, <<"U+03B4">>, <<"U+03B5">>, <<"U+03B6">>, <<"U+03B7">>, <<"U+03B8">>,
    <<"U+03B9">>, <<"U+03BA">>, <<"U+03BB">>, <<"U+03BC">>, <<"U+03BD">>, <<"U+03BE">>,
    <<"U+03BF">>, <<"U+03C0">>, <<"U+03C1">>, <<"U+03C3">>, <<"U+03C4">>, <<"U+03C5">>,
    <<"U+03C6">>, <<"U+03C7">>, <<"U+03C8">>, <<"U+03C9">>, <<"U+03CA">>, <<"U+03CB">>,
    <<"U+03D7">>, <<"U+03D9">>, <<"U+03DB">>, <<"U+03DD">>, <<"U+03DF">>, <<"U+03E1">>,
    <<"U+03E3">>, <<"U+03E5">>, <<"U+03E7">>, <<"U+03E9">>, <<"U+03EB">>, <<"U+03ED">>,
    <<"U+03EF">>, <<"U+03B8">>, <<"U+03F8">>, <<"U+03F2">>, <<"U+03FB">>, <<"U+037B">>,
    <<"U+037C">>, <<"U+037D">>, <<"U+0450">>, <<"U+0451">>, <<"U+0452">>, <<"U+0453">>,
    <<"U+0454">>, <<"U+0455">>, <<"U+0456">>, <<"U+0457">>, <<"U+0458">>, <<"U+0459">>,
    <<"U+045A">>, <<"U+045B">>, <<"U+045C">>, <<"U+045D">>, <<"U+045E">>, <<"U+045F">>,
    <<"U+0430">>, <<"U+0431">>, <<"U+0432">>, <<"U+0433">>, <<"U+0434">>, <<"U+0435">>,
    <<"U+0436">>, <<"U+0437">>, <<"U+0438">>, <<"U+0439">>, <<"U+043A">>, <<"U+043B">>,
    <<"U+043C">>, <<"U+043D">>, <<"U+043E">>, <<"U+043F">>, <<"U+0440">>, <<"U+0441">>,
    <<"U+0442">>, <<"U+0443">>, <<"U+0444">>, <<"U+0445">>, <<"U+0446">>, <<"U+0447">>,
    <<"U+0448">>, <<"U+0449">>, <<"U+044A">>, <<"U+044B">>, <<"U+044C">>, <<"U+044D">>,
    <<"U+044E">>, <<"U+044F">>, <<"U+0461">>, <<"U+0463">>, <<"U+0465">>, <<"U+0467">>,
    <<"U+0469">>, <<"U+046B">>, <<"U+046D">>, <<"U+046F">>, <<"U+0471">>, <<"U+0473">>,
    <<"U+0475">>, <<"U+0477">>, <<"U+0479">>, <<"U+047B">>, <<"U+047D">>, <<"U+047F">>,
    <<"U+0481">>, <<"U+048B">>, <<"U+048D">>, <<"U+048F">>, <<"U+0491">>, <<"U+0493">>,
    <<"U+0495">>, <<"U+0497">>, <<"U+0499">>, <<"U+049B">>, <<"U+049D">>, <<"U+049F">>,
    <<"U+04A1">>, <<"U+04A3">>, <<"U+04A5">>, <<"U+04A7">>, <<"U+04A9">>, <<"U+04AB">>,
    <<"U+04AD">>, <<"U+04AF">>, <<"U+04B1">>, <<"U+04B3">>, <<"U+04B5">>, <<"U+04B7">>,
    <<"U+04B9">>, <<"U+04BB">>, <<"U+04BD">>, <<"U+04BF">>, <<"U+04CF">>, <<"U+04C2">>,
    <<"U+04C4">>, <<"U+04C6">>, <<"U+04C8">>, <<"U+04CA">>, <<"U+04CC">>, <<"U+04CE">>,
    <<"U+04D1">>, <<"U+04D3">>, <<"U+04D5">>, <<"U+04D7">>, <<"U+04D9">>, <<"U+04DB">>,
    <<"U+04DD">>, <<"U+04DF">>, <<"U+04E1">>, <<"U+04E3">>, <<"U+04E5">>, <<"U+04E7">>,
    <<"U+04E9">>, <<"U+04EB">>, <<"U+04ED">>, <<"U+04EF">>, <<"U+04F1">>, <<"U+04F3">>,
    <<"U+04F5">>, <<"U+04F7">>, <<"U+04F9">>, <<"U+04FB">>, <<"U+04FD">>, <<"U+04FF">>,
    <<"U+0501">>, <<"U+0503">>, <<"U+0505">>, <<"U+0507">>, <<"U+0509">>, <<"U+050B">>,
    <<"U+050D">>, <<"U+050F">>, <<"U+0511">>, <<"U+0513">>, <<"U+0515">>, <<"U+0517">>,
    <<"U+0519">>, <<"U+051B">>, <<"U+051D">>, <<"U+051F">>, <<"U+0521">>, <<"U+0523">>,
    <<"U+0525">>, <<"U+0527">>, <<"U+0529">>, <<"U+052B">>, <<"U+052D">>, <<"U+052F">>,
    <<"U+1E01">>, <<"U+1E03">>, <<"U+1E05">>, <<"U+1E07">>, <<"U+1E09">>, <<"U+1E0B">>,
    <<"U+1E0D">>, <<"U+1E0F">>, <<"U+1E11">>, <<"U+1E13">>, <<"U+1E15">>, <<"U+1E17">>,
    <<"U+1E19">>, <<"U+1E1B">>, <<"U+1E1D">>, <<"U+1E1F">>, <<"U+1E21">>, <<"U+1E23">>,
    <<"U+1E25">>, <<"U+1E27">>, <<"U+1E29">>, <<"U+1E2B">>, <<"U+1E2D">>, <<"U+1E2F">>,
    <<"U+1E31">>, <<"U+1E33">>, <<"U+1E35">>, <<"U+1E37">>, <<"U+1E39">>, <<"U+1E3B">>,
    <<"U+1E3D">>, <<"U+1E3F">>, <<"U+1E41">>, <<"U+1E43">>, <<"U+1E45">>, <<"U+1E47">>,
    <<"U+1E49">>, <<"U+1E4B">>, <<"U+1E4D">>, <<"U+1E4F">>, <<"U+1E51">>, <<"U+1E53">>,
    <<"U+1E55">>, <<"U+1E57">>, <<"U+1E59">>, <<"U+1E5B">>, <<"U+1E5D">>, <<"U+1E5F">>,
    <<"U+1E61">>, <<"U+1E63">>, <<"U+1E65">>, <<"U+1E67">>, <<"U+1E69">>, <<"U+1E6B">>,
    <<"U+1E6D">>, <<"U+1E6F">>, <<"U+1E71">>, <<"U+1E73">>, <<"U+1E75">>, <<"U+1E77">>,
    <<"U+1E79">>, <<"U+1E7B">>, <<"U+1E7D">>, <<"U+1E7F">>, <<"U+1E81">>, <<"U+1E83">>,
    <<"U+1E85">>, <<"U+1E87">>, <<"U+1E89">>, <<"U+1E8B">>, <<"U+1E8D">>, <<"U+1E8F">>,
    <<"U+1E91">>, <<"U+1E93">>, <<"U+1E95">>, <<"ß">>, <<"U+1EA1">>, <<"U+1EA3">>,
    <<"U+1EA5">>, <<"U+1EA7">>, <<"U+1EA9">>, <<"U+1EAB">>, <<"U+1EAD">>, <<"U+1EAF">>,
    <<"U+1EB1">>, <<"U+1EB3">>, <<"U+1EB5">>, <<"U+1EB7">>, <<"U+1EB9">>, <<"U+1EBB">>,
    <<"U+1EBD">>, <<"U+1EBF">>, <<"U+1EC1">>, <<"U+1EC3">>, <<"U+1EC5">>, <<"U+1EC7">>,
    <<"U+1EC9">>, <<"U+1ECB">>, <<"U+1ECD">>, <<"U+1ECF">>, <<"U+1ED1">>, <<"U+1ED3">>,
    <<"U+1ED5">>, <<"U+1ED7">>, <<"U+1ED9">>, <<"U+1EDB">>, <<"U+1EDD">>, <<"U+1EDF">>,
    <<"U+1EE1">>, <<"U+1EE3">>, <<"U+1EE5">>, <<"U+1EE7">>, <<"U+1EE9">>, <<"U+1EEB">>,
    <<"U+1EED">>, <<"U+1EEF">>, <<"U+1EF1">>, <<"U+1EF3">>, <<"U+1EF5">>, <<"U+1EF7">>,
    <<"U+1EF9">>, <<"U+1EFB">>, <<"U+1EFD">>, <<"U+1EFF">>, <<"U+1F00">>, <<"U+1F01">>,
    <<"U+1F02">>, <<"U+1F03">>, <<"U+1F04">>, <<"U+1F05">>, <<"U+1F06">>, <<"U+1F07">>,
    <<"U+1F10">>, <<"U+1F11">>, <<"U+1F12">>, <<"U+1F13">>, <<"U+1F14">>, <<"U+1F15">>,
    <<"U+1F20">>, <<"U+1F21">>, <<"U+1F22">>, <<"U+1F23">>, <<"U+1F24">>, <<"U+1F25">>,
    <<"U+1F26">>, <<"U+1F27">>, <<"U+1F30">>, <<"U+1F31">>, <<"U+1F32">>, <<"U+1F33">>,
    <<"U+1F34">>, <<"U+1F35">>, <<"U+1F36">>, <<"U+1F37">>, <<"U+1F40">>, <<"U+1F41">>,
    <<"U+1F42">>, <<"U+1F43">>, <<"U+1F44">>, <<"U+1F45">>, <<"U+1F51">>, <<"U+1F53">>,
    <<"U+1F55">>, <<"U+1F57">>, <<"U+1F60">>, <<"U+1F61">>, <<"U+1F62">>, <<"U+1F63">>,
    <<"U+1F64">>, <<"U+1F65">>, <<"U+1F66">>, <<"U+1F67">>, <<"U+1F80">>, <<"U+1F81">>,
    <<"U+1F82">>, <<"U+1F83">>, <<"U+1F84">>, <<"U+1F85">>, <<"U+1F86">>, <<"U+1F87">>,
    <<"U+1F90">>, <<"U+1F91">>, <<"U+1F92">>, <<"U+1F93">>, <<"U+1F94">>, <<"U+1F95">>,
    <<"U+1F96">>, <<"U+1F97">>, <<"U+1FA0">>, <<"U+1FA1">>, <<"U+1FA2">>, <<"U+1FA3">>,
    <<"U+1FA4">>, <<"U+1FA5">>, <<"U+1FA6">>, <<"U+1FA7">>, <<"U+1FB0">>, <<"U+1FB1">>,
    <<"U+1F70">>, <<"U+1F71">>, <<"U+1FB3">>, <<"U+1F72">>, <<"U+1F73">>, <<"U+1F74">>,
    <<"U+1F75">>, <<"U+1FC3">>, <<"U+1FD0">>, <<"U+1FD1">>, <<"U+1F76">>, <<"U+1F77">>,
    <<"U+1FE0">>, <<"U+1FE1">>, <<"U+1F7A">>, <<"U+1F7B">>, <<"U+1FE5">>, <<"U+1F78">>,
    <<"U+1F79">>, <<"U+1F7C">>, <<"U+1F7D">>, <<"U+1FF3">>, <<"k">>, <<"å">>
  >>
Cased == {UpperCase[i] : i \in DOMAIN UpperCase}

\* the characters of the same ranges that are not their own NFD form, and
\* that form
Accented ==
  <<
    "À", "Á", "Â", "Ã", "Ä", "Å", "Ç", "È", "É", "Ê", "Ë", "Ì", "Í", "Î", "Ï", "Ñ",
    "Ò", "Ó", "Ô", "Õ", "Ö", "Ù", "Ú", "Û", "Ü", "Ý", "à", "á", "â", "ã", "ä", "å",
    "ç", "è", "é", "ê", "ë", "ì", "í", "î", "ï", "ñ", "ò", "ó", "ô", "õ", "ö", "ù",
    "ú", "û", "ü", "ý", "ÿ", "U+0100", "U+0101", "U+0102", "U+0103", "U+0104",
    "U+0105", "U+0106", "U+0107", "U+0108", "U+0109", "U+010A", "U+010B", "U+010C",
    "U+010D", "U+010E", "U+010F", "U+0112", "U+0113", "U+0114", "U+0115", "U+0116",
    "U+0117", "U+0118", "U+0119", "U+011A", "U+011B", "U+011C", "U+011D", "U+011E",
    "U+011F", "U+0120", "U+0121", "U+0122", "U+0123", "U+0124", "U+0125", "U+0128",
    "U+0129", "U+012A", "U+012B", "U+012C", "U+012D", "U+012E", "U+012F", "U+0130",
    "U+0134", "U+0135", "U+0136", "U+0137", "U+0139", "U+013A", "U+013B", "U+013C",
    "U+013D", "U+013E", "U+0143", "U+0144", "U+0145", "U+0146", "U+0147", "U+0148",
    "U+014C", "U+014D", "U+014E", "U+014F", "U+0150", "U+0151", "U+0154", "U+0155",
    "U+0156", "U+0157", "U+0158", "U+0159", "U+015A", "U+015B", "U+015C", "U+015D",
    "U+015E", "U+015F", "U+0160", "U+0161", "U+0162", "U+0163", "U+0164", "U+0165",
    "U+0168", "U+0169", "U+016A", "U+016B", "U+016C", "U+016D", "U+016E", "U+016F",
    "U+0170", "U+0171", "U+0172", "U+0173", "U+0174", "U+0175", "U+0176", "U+0177",
    "U+0178", "U+0179", "U+017A", "U+017B", "U+017C", "U+017D", "U+017E", "U+01A0",
    "U+01A1", "U+01AF", "U+01B0", "U+01CD", "U+01CE", "U+01CF", "U+01D0", "U+01D1",
    "U+01D2", "U+01D3", "U+01D4", "U+01D5", "U+01D6", "U+01D7", "U+01D8", "U+01D9",
    "U+01DA", "U+01DB", "U+01DC", "U+01DE", "U+01DF", "U+01E0", "U+01E1", "U+01E2",
    "U+01E3", "U+01E6", "U+01E7", "U+01E8", "U+01E9", "U+01EA", "U+01EB", "U+01EC",
    "U+01ED", "U+01EE", "U+01EF", "U+01F0", "U+01F4", "U+01F5", "U+01F8", "U+01F9",
    "U+01FA", "U+01FB", "U+01FC", "U+01FD", "U+01FE", "U+01FF", "U+0200", "U+0201",
    "U+0202", "U+0203", "U+0204", "U+0205", "U+0206", "U+0207", "U+0208", "U+0209",
    "U+020A", "U+020B", "U+020C", "U+020D", "U+020E", "U+020F", "U+0210", "U+0211",
    "U+0212", "U+0213", "U+0214", "U+0215", "U+0216", "U+0217", "U+0218", "U+0219",
    "U+021A", "U+021B", "U+021E", "U+021F", "U+0226", "U+0227", "U+0228", "U+0229",
    "U+022A", "U+022B", "U+022C", "U+022D", "U+022E", "U+022F", "U+0230", "U+0231",
    "U+0232", "U+0233", "U+0340", "U+0341", "U+0343", "U+0344", "U+0374", "U+037E",
    "U+0385", "U+0386", "U+0387", "U+0388", "U+0389", "U+038A", "U+038C", "U+038E",
    "U+038F", "U+0390", "U+03AA", "U+03AB", "U+03AC", "U+03AD", "U+03AE", "U+03AF",
    "U+03B0", "U+03CA", "U+03CB", "U+03CC", "U+03CD", "U+03CE", "U+03D3", "U+03D4",
    "U+0400", "U+0401", "U+0403", "U+0407", "U+040C", "U+040D", "U+040E", "U+0419",
    "U+0439", "U+0450", "U+0451", "U+0453", "U+0457", "U+045C", "U+045D", "U+045E",
    "U+0476", "U+0477", "U+04C1", "U+04C2", "U+04D0", "U+04D1", "U+04D2", "U+04D3",
    "U+04D6", "U+04D7", "U+04DA", "U+04DB", "U+04DC", "U+04DD", "U+04DE", "U+04DF",
    "U+04E2", "U+04E3", "U+04E4", "U+04E5", "U+04E6", "U+04E7", "U+04EA", "U+04EB",
    "U+04EC", "U+04ED", "U+04EE", "U+04EF", "U+04F0", "U+04F1", "U+04F2", "U+04F3",
    "U+04F4", "U+04F5", "U+04F8", "U+04F9", "U+1E00", "U+1E01", "U+1E02", "U+1E03",
    "U+1E04", "U+1E05", "U+1E06", "U+1E07", "U+1E08", "U+1E09", "U+1E0A", "U+1E0B",
    "U+1E0C", "U+1E0D", "U+1E0E", "U+1E0F", "U+1E10", "U+1E11", "U+1E12", "U+1E13",
    "U+1E14", "U+1E15", "U+1E16", "U+1E17", "U+1E18", "U+1E19", "U+1E1A", "U+1E1B",
    "U+1E1C", "U+1E1D", "U+1E1E", "U+1E1F", "U+1E20", "U+1E21", "U+1E22", "U+1E23",
    "U+1E24", "U+1E25", "U+1E26", "U+1E27", "U+1E28", "U+1E29", "U+1E2A", "U+1E2B",
    "U+1E2C", "U+1E2D", "U+1E2E", "U+1E2F", "U+1E30", "U+1E31", "U+1E32", "U+1E33",
    "U+1E34", "U+1E35", "U+1E36", "U+1E37", "U+1E38", "U+1E39", "U+1E3A", "U+1E3B",
    "U+1E3C", "U+1E3D", "U+1E3E", "U+1E3F", "U+1E40", "U+1E41", "U+1E42", "U+1E43",
    "U+1E44", "U+1E45", "U+1E46", "U+1E47", "U+1E48", "U+1E49", "U+1E4A", "U+1E4B",
    "U+1E4C", "U+1E4D", "U+1E4E", "U+1E4F", "U+1E50", "U+1E51", "U+1E52", "U+1E53",
    "U+1E54", "U+1E55", "U+1E56", "U+1E57", "U+1E58", "U+1E59", "U+1E5A", "U+1E5B",
    "U+1E5C", "U+1E5D", "U+1E5E", "U+1E5F", "U+1E60", "U+1E61", "U+1E62", "U+1E63",
    "U+1E64", "U+1E65", "U+1E66", "U+1E67", "U+1E68", "U+1E69", "U+1E6A", "U+1E6B",
    "U+1E6C", "U+1E6D", "U+1E6E", "U+1E6F", "U+1E70", "U+1E71", "U+1E72", "U+1E73",
    "U+1E74", "U+1E75", "U+1E76", "U+1E77", "U+1E78", "U+1E79", "U+1E7A", "U+1E7B",
    "U+1E7C", "U+1E7D", "U+1E7E", "U+1E7F", "U+1E80", "U+1E81", "U+1E82", "U+1E83",
    "U+1E84", "U+1E85", "U+1E86", "U+1E87", "U+1E88", "U+1E89", "U+1E8A", "U+1E8B",
    "U+1E8C", "U+1E8D", "U+1E8E", "U+1E8F", "U+1E90", "U+1E91", "U+1E92", "U+1E93",
    "U+1E94", "U+1E95", "U+1E96", "U+1E97", "U+1E98", "U+1E99", "U+1E9B", "U+1EA0",
    "U+1EA1", "U+1EA2", "U+1EA3", "U+1EA4", "U+1EA5", "U+1EA6", "U+1EA7", "U+1EA8",
    "U+1EA9", "U+1EAA", "U+1EAB", "U+1EAC", "U+1EAD", "U+1EAE", "U+1EAF", "U+1EB0",
    "U+1EB1", "U+1EB2", "U+1EB3", "U+1EB4", "U+1EB5", "U+1EB6", "U+1EB7", "U+1EB8",
    "U+1EB9", "U+1EBA", "U+1EBB", "U+1EBC", "U+1EBD", "U+1EBE", "U+1EBF", "U+1EC0",
    "U+1EC1", "U+1EC2", "U+1EC3", "U+1EC4", "U+1EC5", "U+1EC6", "U+1EC7", "U+1EC8",
    "U+1EC9", "U+1ECA", "U+1ECB", "U+1ECC", "U+1ECD", "U+1ECE", "U+1ECF", "U+1ED0",
    "U+1ED1", "U+1ED2", "U+1ED3", "U+1ED4", "U+1ED5", "U+1ED6", "U+1ED7", "U+1ED8",
    "U+1ED9", "U+1EDA", "U+1EDB", "U+1EDC", "U+1EDD", "U+1EDE", "U+1EDF", "U+1EE0",
    "U+1EE1", "U+1EE2", "U+1EE3", "U+1EE4", "U+1EE5", "U+1EE6", "U+1EE7", "U+1EE8",
    "U+1EE9", "U+1EEA", "U+1EEB", "U+1EEC", "U+1EED", "U+1EEE", "U+1EEF", "U+1EF0",
    "U+1EF1", "U+1EF2", "U+1EF3", "U+1EF4", "U+1EF5", "U+1EF6", "U+1EF7", "U+1EF8",
    "U+1EF9", "U+1F00", "U+1F01", "U+1F02", "U+1F03", "U+1F04", "U+1F05", "U+1F06",
    "U+1F07", "U+1F08", "U+1F09", "U+1F0A", "U+1F0B", "U+1F0C", "U+1F0D", "U+1F0E",
    "U+1F0F", "U+1F10", "U+1F11", "U+1F12", "U+1F13", "U+1F14", "U+1F15", "U+1F18",
    "U+1F19", "U+1F1A", "U+1F1B", "U+1F1C", "U+1F1D", "U+1F20", "U+1F21", "U+1F22",
    "U+1F23", "U+1F24", "U+1F25", "U+1F26", "U+1F27", "U+1F28", "U+1F29", "U+1F2A",
    "U+1F2B", "U+1F2C", "U+1F2D", "U+1F2E", "U+1F2F", "U+1F30", "U+1F31", "U+1F32",
    "U+1F33", "U+1F34", "U+1F35", "U+1F36", "U+1F37", "U+1F38", "U+1F39", "U+1F3A",
    "U+1F3B", "U+1F3C", "U+1F3D", "U+1F3E", "U+1F3F", "U+1F40", "U+1F41", "U+1F42",
    "U+1F43", "U+1F44", "U+1F45", "U+1F48", "U+1F49", "U+1F4A", "U+1F4B", "U+1F4C",
    "U+1F4D", "U+1F50", "U+1F51", "U+1F52", "U+1F53", "U+1F54", "U+1F55", "U+1F56",
    "U+1F57", "U+1F59", "U+1F5B", "U+1F5D", "U+1F5F", "U+1F60", "U+1F61", "U+1F62",
    "U+1F63", "U+1F64", "U+1F65", "U+1F66", "U+1F67", "U+1F68", "U+1F69", "U+1F6A",
    "U+1F6B", "U+1F6C", "U+1F6D", "U+1F6E", "U+1F6F", "U+1F70", "U+1F71", "U+1F72",
    "U+1F73", "U+1F74", "U+1F75", "U+1F76", "U+1F77", "U+1F78", "U+1F79", "U+1F7A",
    "U+1F7B", "U+1F7C", "U+1F7D", "U+1F80", "U+1F81", "U+1F82", "U+1F83", "U+1F84",
    "U+1F85", "U+1F86", "U+1F87", "U+1F88", "U+1F89", "U+1F8A", "U+1F8B", "U+1F8C",
    "U+1F8D", "U+1F8E", "U+1F8F", "U+1F90", "U+1F91", "U+1F92", "U+1F93", "U+1F94",
    "U+1F95", "U+1F96", "U+1F97", "U+1F98", "U+1F99", "U+1F9A", "U+1F9B", "U+1F9C",
    "U+1F9D", "U+1F9E", "U+1F9F", "U+1FA0", "U+1FA1", "U+1FA2", "U+1FA3", "U+1FA4",
    "U+1FA5", "U+1FA6", "U+1FA7", "U+1FA8", "U+1FA9", "U+1FAA", "U+1FAB", "U+1FAC",
    "U+1FAD", "U+1FAE", "U+1FAF", "U+1FB0", "U+1FB1", "U+1FB2", "U+1FB3", "U+1FB4",
    "U+1FB6", "U+1FB7", "U+1FB8", "U+1FB9", "U+1FBA", "U+1FBB", "U+1FBC", "U+1FBE",
    "U+1FC1", "U+1FC2", "U+1FC3", "U+1FC4", "U+1FC6", "U+1FC7", "U+1FC8", "U+1FC9",
    "U+1FCA", "U+1FCB", "U+1FCC", "U+1FCD", "U+1FCE", "U+1FCF", "U+1FD0", "U+1FD1",
    "U+1FD2", "U+1FD3", "U+1FD6", "U+1FD7", "U+1FD8", "U+1FD9", "U+1FDA", "U+1FDB",
    "U+1FDD", "U+1FDE", "U+1FDF", "U+1FE0", "U+1FE1", "U+1FE2", "U+1FE3", "U+1FE4",
    "U+1FE5", "U+1FE6", "U+1FE7", "U+1FE8", "U+1FE9", "U+1FEA", "U+1FEB", "U+1FEC",
    "U+1FED", "U+1FEE", "U+1FEF", "U+1FF2", "U+1FF3", "U+1FF4", "U+1FF6", "U+1FF7",
    "U+1FF8", "U+1FF9", "U+1FFA", "U+1FFB", "U+1FFC", "U+1FFD", "U+212A", "U+212B"
  >>
Decomposed ==
  <<
    <<"A", "U+0300">>, <<"A", "U+0301">>, <<"A", "U+0302">>, <<"A", "U+0303">>,
    <<"A", "U+0308">>, <<"A", "U+030A">>, <<"C", "U+0327">>, <<"E", "U+0300">>,
    <<"E", "U+0301">>, <<"E", "U+0302">>, <<"E", "U+0308">>, <<"I", "U+0300">>,
    <<"I", "U+0301">>, <<"I", "U+0302">>, <<"I", "U+0308">>, <<"N", "U+0303">>,
    <<"O", "U+0300">>, <<"O", "U+0301">>, <<"O", "U+0302">>, <<"O", "U+0303">>,
    <<"O", "U+0308">>, <<"U", "U+0300">>, <<"U", "U+0301">>, <<"U", "U+0302">>,
    <<"U", "U+0308">>, <<"Y", "U+0301">>, <<"a", "U+0300">>, <<"a", "U+0301">>,
    <<"a", "U+0302">>, <<"a", "U+0303">>, <<"a", "U+0308">>, <<"a", "U+030A">>,
    <<"c", "U+0327">>, <<"e", "U+0300">>, <<"e", "U+0301">>, <<"e", "U+0302">>,
    <<"e", "U+0308">>, <<"i", "U+0300">>, <<"i", "U+0301">>, <<"i", "U+0302">>,
    <<"i", "U+0308">>, <<"n", "U+0303">>, <<"o", "U+0300">>, <<"o", "U+0301">>,
    <<"o", "U+0302">>, <<"o", "U+0303">>, <<"o", "U+0308">>, <<"u", "U+0300">>,
    <<"u", "U+0301">>, <<"u", "U+0302">>, <<"u", "U+0308">>, <<"y", "U+0301">>,
    <<"y", "U+0308">>, <<"A", "U+0304">>, <<"a", "U+0304">>, <<"A", "U+0306">>,
    <<"a", "U+0306">>, <<"A", "U+0328">>, <<"a", "U+0328">>, <<"C", "U+0301">>,
    <<"c", "U+0301">>, <<"C", "U+0302">>, <<"c", "U+0302">>, <<"C", "U+0307">>,
    <<"c", "U+0307">>, <<"C", "U+030C">>, <<"c", "U+030C">>, <<"D", "U+030C">>,
    <<"d", "U+030C">>, <<"E", "U+0304">>, <<"e", "U+0304">>, <<"E", "U+0306">>,
    <<"e", "U+0306">>, <<"E", "U+0307">>, <<"e", "U+0307">>, <<"E", "U+0328">>,
    <<"e", "U+0328">>, <<"E", "U+030C">>, <<"e", "U+030C">>, <<"G", "U+0302">>,
    <<"g", "U+0302">>, <<"G", "U+0306">>, <<"g", "U+0306">>, <<"G", "U+0307">>,
    <<"g", "U+0307">>, <<"G", "U+0327">>, <<"g", "U+0327">>, <<"H", "U+0302">>,
    <<"h", "U+0302">>, <<"I", "U+0303">>, <<"i", "U+0303">>, <<"I", "U+0304">>,
    <<"i", "U+0304">>, <<"I", "U+0306">>, <<"i", "U+0306">>, <<"I", "U+0328">>,
    <<"i", "U+0328">>, <<"I", "U+0307">>, <<"J", "U+0302">>, <<"j", "U+0302">>,
    <<"K", "U+0327">>, <<"k", "U+0327">>, <<"L", "U+0301">>, <<"l", "U+0301">>,
    <<"L", "U+0327">>, <<"l", "U+0327">>, <<"L", "U+030C">>, <<"l", "U+030C">>,
    <<"N", "U+0301">>, <<"n", "U+0301">>, <<"N", "U+0327">>, <<"n", "U+0327">>,
    <<"N", "U+030C">>, <<"n", "U+030C">>, <<"O", "U+0304">>, <<"o", "U+0304">>,
    <<"O", "U+0306">>, <<"o", "U+0306">>, <<"O", "U+030B">>, <<"o", "U+030B">>,
    <<"R", "U+0301">>, <<"r", "U+0301">>, <<"R", "U+0327">>, <<"r", "U+0327">>,
    <<"R", "U+030C">>, <<"r", "U+030C">>, <<"S", "U+0301">>, <<"s", "U+0301">>,
    <<"S", "U+0302">>, <<"s", "U+0302">>, <<"S", "U+0327">>, <<"s", "U+0327">>,
    <<"S", "U+030C">>, <<"s", "U+030C">>, <<"T", "U+0327">>, <<"t", "U+0327">>,
    <<"T", "U+030C">>, <<"t", "U+030C">>, <<"U", "U+0303">>, <<"u", "U+0303">>,
    <<"U", "U+0304">>, <<"u", "U+0304">>, <<"U", "U+0306">>, <<"u", "U+0306">>,
    <<"U", "U+030A">>, <<"u", "U+030A">>, <<"U", "U+030B">>, <<"u", "U+030B">>,
    <<"U", "U+0328">>, <<"u", "U+0328">>, <<"W", "U+0302">>, <<"w", "U+0302">>,
    <<"Y", "U+0302">>, <<"y", "U+0302">>, <<"Y", "U+0308">>, <<"Z", "U+0301">>,
    <<"z", "U+0301">>, <<"Z", "U+0307">>, <<"z", "U+0307">>, <<"Z", "U+030C">>,
    <<"z", "U+030C">>, <<"O", "U+031B">>, <<"o", "U+031B">>, <<"U", "U+031B">>,
    <<"u", "U+031B">>, <<"A", "U+030C">>, <<"a", "U+030C">>, <<"I", "U+030C">>,
    <<"i", "U+030C">>, <<"O", "U+030C">>, <<"o", "U+030C">>, <<"U", "U+030C">>,
    <<"u", "U+030C">>, <<"U", "U+0308", "U+0304">>, <<"u", "U+0308", "U+0304">>,
    <<"U", "U+0308", "U+0301">>, <<"u", "U+0308", "U+0301">>,
    <<"U", "U+0308", "U+030C">>, <<"u", "U+0308", "U+030C">>,
    <<"U", "U+0308", "U+0300">>, <<"u", "U+0308", "U+0300">>,
    <<"A", "U+0308", "U+0304">>, <<"a", "U+0308", "U+0304">>,
    <<"A", "U+0307", "U+0304">>, <<"a", "U+0307", "U+0304">>, <<"Æ", "U+0304">>,
    <<"æ", "U+0304">>, <<"G", "U+030C">>, <<"g", "U+030C">>, <<"K", "U+030C">>,
    <<"k", "U+030C">>, <<"O", "U+0328">>, <<"o", "U+0328">>,
    <<"O", "U+0328", "U+0304">>, <<"o", "U+0328", "U+0304">>, <<"U+01B7", "U+030C">>,
    <<"U+0292", "U+030C">>, <<"j", "U+030C">>, <<"G", "U+0301">>, <<"g", "U+0301">>,
    <<"N", "U+0300">>, <<"n", "U+0300">>, <<"A", "U+030A", "U+0301">>,
    <<"a", "U+030A", "U+0301">>, <<"Æ", "U+0301">>, <<"æ", "U+0301">>,
    <<"Ø", "U+0301">>, <<"ø", "U+0301">>, <<"A", "U+030F">>, <<"a", "U+030F">>,
    <<"A", "U+0311">>, <<"a", "U+0311">>, <<"E", "U+030F">>, <<"e", "U+030F">>,
    <<"E", "U+0311">>, <<"e", "U+0311">>, <<"I", "U+030F">>, <<"i", "U+030F">>,
    <<"I", "U+0311">>, <<"i", "U+0311">>, <<"O", "U+030F">>, <<"o", "U+030F">>,
    <<"O", "U+0311">>, <<"o", "U+0311">>, <<"R", "U+030F">>, <<"r", "U+030F">>,
    <<"R", "U+0311">>, <<"r", "U+0311">>, <<"U", "U+030F">>, <<"u", "U+030F">>,
    <<"U", "U+0311">>, <<"u", "U+0311">>, <<"S", "U+0326">>, <<"s", "U+0326">>,
    <<"T", "U+0326">>, <<"t", "U+0326">>, <<"H", "U+030C">>, <<"h", "U+030C">>,
    <<"A", "U+0307">>, <<"a", "U+0307">>, <<"E", "U+0327">>, <<"e", "U+0327">>,
    <<"O", "U+0308", "U+0304">>, <<"o", "U+0308", "U+0304">>,
    <<"O", "U+0303", "U+0304">>, <<"o", "U+0303", "U+0304">>, <<"O", "U+0307">>,
    <<"o", "U+0307">>, <<"O", "U+0307", "U+0304">>, <<"o", "U+0307", "U+0304">>,
    <<"Y", "U+0304">>, <<"y", "U+0304">>, <<"U+0300">>, <<"U+0301">>, <<"U+0313">>,
    <<"U+0308", "U+0301">>, <<"U+02B9">>, <<";">>, <<"¨", "U+0301">>,
    <<"U+0391", "U+0301">>, <<"·">>, <<"U+0395", "U+0301">>, <<"U+0397", "U+0301">>,
    <<"U+0399", "U+0301">>, <<"U+039F", "U+0301">>, <<"U+03A5", "U+0301">>,
    <<"U+03A9", "U+0301">>, <<"U+03B9", "U+0308", "U+0301">>, <<"U+0399", "U+0308">>,
    <<"U+03A5", "U+0308">>, <<"U+03B1", "U+0301">>, <<"U+03B5", "U+0301">>,
    <<"U+03B7", "U+0301">>, <<"U+03B9", "U+0301">>, <<"U+03C5", "U+0308", "U+0301">>,
    <<"U+03B9", "U+0308">>, <<"U+03C5", "U+0308">>, <<"U+03BF", "U+0301">>,
    <<"U+03C5", "U+0301">>, <<"U+03C9", "U+0301">>, <<"U+03D2", "U+0301">>,
    <<"U+03D2", "U+0308">>, <<"U+0415", "U+0300">>, <<"U+0415", "U+0308">>,
    <<"U+0413", "U+0301">>, <<"U+0406", "U+0308">>, <<"U+041A", "U+0301">>,
    <<"U+0418", "U+0300">>, <<"U+0423", "U+0306">>, <<"U+0418", "U+0306">>,
    <<"U+0438", "U+0306">>, <<"U+0435", "U+0300">>, <<"U+0435", "U+0308">>,
    <<"U+0433", "U+0301">>, <<"U+0456", "U+0308">>, <<"U+043A", "U+0301">>,
    <<"U+0438", "U+0300">>, <<"U+0443", "U+0306">>, <<"U+0474", "U+030F">>,
    <<"U+0475", "U+030F">>, <<"U+0416", "U+0306">>, <<"U+0436", "U+0306">>,
    <<"U+0410", "U+0306">>, <<"U+0430", "U+0306">>, <<"U+0410", "U+0308">>,
    <<"U+0430", "U+0308">>, <<"U+0415", "U+0306">>, <<"U+0435", "U+0306">>,
    <<"U+04D8", "U+0308">>, <<"U+04D9", "U+0308">>, <<"U+0416", "U+0308">>,
    <<"U+0436", "U+0308">>, <<"U+0417", "U+0308">>, <<"U+0437", "U+0308">>,
    <<"U+0418", "U+0304">>, <<"U+0438", "U+0304">>, <<"U+0418", "U+0308">>,
    <<"U+0438", "U+0308">>, <<"U+041E", "U+0308">>, <<"U+043E", "U+0308">>,
    <<"U+04E8", "U+0308">>, <<"U+04E9", "U+0308">>, <<"U+042D", "U+0308">>,
    <<"U+044D", "U+0308">>, <<"U+0423", "U+0304">>, <<"U+0443", "U+0304">>,
    <<"U+0423", "U+0308">>, <<"U+0443", "U+0308">>, <<"U+0423", "U+030B">>,
    <<"U+0443", "U+030B">>, <<"U+0427", "U+0308">>, <<"U+0447", "U+0308">>,
    <<"U+042B", "U+0308">>, <<"U+044B", "U+0308">>, <<"A", "U+0325">>,
    <<"a", "U+0325">>, <<"B", "U+0307">>, <<"b", "U+0307">>, <<"B", "U+0323">>,
    <<"b", "U+0323">>, <<"B", "U+0331">>, <<"b", "U+0331">>,
    <<"C", "U+0327", "U+0301">>, <<"c", "U+0327", "U+0301">>, <<"D", "U+0307">>,
    <<"d", "U+0307">>, <<"D", "U+0323">>, <<"d", "U+0323">>, <<"D", "U+0331">>,
    <<"d", "U+0331">>, <<"D", "U+0327">>, <<"d", "U+0327">>, <<"D", "U+032D">>,
    <<"d", "U+032D">>, <<"E", "U+0304", "U+0300">>, <<"e", "U+0304", "U+0300">>,
    <<"E", "U+0304", "U+0301">>, <<"e", "U+0304", "U+0301">>, <<"E", "U+032D">>,
    <<"e", "U+032D">>, <<"E", "U+0330">>, <<"e", "U+0330">>,
    <<"E", "U+0327", "U+0306">>, <<"e", "U+0327", "U+0306">>, <<"F", "U+0307">>,
    <<"f", "U+0307">>, <<"G", "U+0304">>, <<"g", "U+0304">>, <<"H", "U+0307">>,
    <<"h", "U+0307">>, <<"H", "U+0323">>, <<"h", "U+0323">>, <<"H", "U+0308">>,
    <<"h", "U+0308">>, <<"H", "U+0327">>, <<"h", "U+0327">>, <<"H", "U+032E">>,
    <<"h", "U+032E">>, <<"I", "U+0330">>, <<"i", "U+0330">>,
    <<"I", "U+0308", "U+0301">>, <<"i", "U+0308", "U+0301">>, <<"K", "U+0301">>,
    <<"k", "U+0301">>, <<"K", "U+0323">>, <<"k", "U+0323">>, <<"K", "U+0331">>,
    <<"k", "U+0331">>, <<"L", "U+0323">>, <<"l", "U+0323">>,
    <<"L", "U+0323", "U+0304">>, <<"l", "U+0323", "U+0304">>, <<"L", "U+0331">>,
    <<"l", "U+0331">>, <<"L", "U+032D">>, <<"l", "U+032D">>, <<"M", "U+0301">>,
    <<"m", "U+0301">>, <<"M", "U+0307">>, <<"m", "U+0307">>, <<"M", "U+0323">>,
    <<"m", "U+0323">>, <<"N", "U+0307">>, <<"n", "U+0307">>, <<"N", "U+0323">>,
    <<"n", "U+0323">>, <<"N", "U+0331">>, <<"n", "U+0331">>, <<"N", "U+032D">>,
    <<"n", "U+032D">>, <<"O", "U+0303", "U+0301">>, <<"o", "U+0303", "U+0301">>,
    <<"O", "U+0303", "U+0308">>, <<"o", "U+0303", "U+0308">>,
    <<"O", "U+0304", "U+0300">>, <<"o", "U+0304", "U+0300">>,
    <<"O", "U+0304", "U+0301">>, <<"o", "U+0304", "U+0301">>, <<"P", "U+0301">>,
    <<"p", "U+0301">>, <<"P", "U+0307">>, <<"p", "U+0307">>, <<"R", "U+0307">>,
    <<"r", "U+0307">>, <<"R", "U+0323">>, <<"r", "U+0323">>,
    <<"R", "U+0323", "U+0304">>, <<"r", "U+0323", "U+0304">>, <<"R", "U+0331">>,
    <<"r", "U+0331">>, <<"S", "U+0307">>, <<"s", "U+0307">>, <<"S", "U+0323">>,
    <<"s", "U+0323">>, <<"S", "U+0301", "U+0307">>, <<"s", "U+0301", "U+0307">>,
    <<"S", "U+030C", "U+0307">>, <<"s", "U+030C", "U+0307">>,
    <<"S", "U+0323", "U+0307">>, <<"s", "U+0323", "U+0307">>, <<"T", "U+0307">>,
    <<"t", "U+0307">>, <<"T", "U+0323">>, <<"t", "U+0323">>, <<"T", "U+0331">>,
    <<"t", "U+0331">>, <<"T", "U+032D">>, <<"t", "U+032D">>, <<"U", "U+0324">>,
    <<"u", "U+0324">>, <<"U", "U+0330">>, <<"u", "U+0330">>, <<"U", "U+032D">>,
    <<"u", "U+032D">>, <<"U", "U+0303", "U+0301">>, <<"u", "U+0303", "U+0301">>,
    <<"U", "U+0304", "U+0308">>, <<"u", "U+0304", "U+0308">>, <<"V", "U+0303">>,
    <<"v", "U+0303">>, <<"V", "U+0323">>, <<"v", "U+0323">>, <<"W", "U+0300">>,
    <<"w", "U+0300">>, <<"W", "U+0301">>, <<"w", "U+0301">>, <<"W", "U+0308">>,
    <<"w", "U+0308">>, <<"W", "U+0307">>, <<"w", "U+0307">>, <<"W", "U+0323">>,
    <<"w", "U+0323">>, <<"X", "U+0307">>, <<"x", "U+0307">>, <<"X", "U+0308">>,
    <<"x", "U+0308">>, <<"Y", "U+0307">>, <<"y", "U+0307">>, <<"Z", "U+0302">>,
    <<"z", "U+0302">>, <<"Z", "U+0323">>, <<"z", "U+0323">>, <<"Z", "U+0331">>,
    <<"z", "U+0331">>, <<"h", "U+0331">>, <<"t", "U+0308">>, <<"w", "U+030A">>,
    <<"y", "U+030A">>, <<"U+017F", "U+0307">>, <<"A", "U+0323">>, <<"a", "U+0323">>,
    <<"A", "U+0309">>, <<"a", "U+0309">>, <<"A", "U+0302", "U+0301">>,
    <<"a", "U+0302", "U+0301">>, <<"A", "U+0302", "U+0300">>,
    <<"a", "U+0302", "U+0300">>, <<"A", "U+0302", "U+0309">>,
    <<"a", "U+0302", "U+0309">>, <<"A", "U+0302", "U+0303">>,
    <<"a", "U+0302", "U+0303">>, <<"A", "U+0323", "U+0302">>,
    <<"a", "U+0323", "U+0302">>, <<"A", "U+0306", "U+0301">>,
    <<"a", "U+0306", "U+0301">>, <<"A", "U+0306", "U+0300">>,
    <<"a", "U+0306", "U+0300">>, <<"A", "U+0306", "U+0309">>,
    <<"a", "U+0306", "U+0309">>, <<"A", "U+0306", "U+0303">>,
    <<"a", "U+0306", "U+0303">>, <<"A", "U+0323", "U+0306">>,
    <<"a", "U+0323", "U+0306">>, <<"E", "U+0323">>, <<"e", "U+0323">>,
    <<"E", "U+0309">>, <<"e", "U+0309">>, <<"E", "U+0303">>, <<"e", "U+0303">>,
    <<"E", "U+0302", "U+0301">>, <<"e", "U+0302", "U+0301">>,
    <<"E", "U+0302", "U+0300">>, <<"e", "U+0302", "U+0300">>,
    <<"E", "U+0302", "U+0309">>, <<"e", "U+0302", "U+0309">>,
    <<"E", "U+0302", "U+0303">>, <<"e", "U+0302", "U+0303">>,
    <<"E", "U+0323", "U+0302">>, <<"e", "U+0323", "U+0302">>, <<"I", "U+0309">>,
    <<"i", "U+0309">>, <<"I", "U+0323">>, <<"i", "U+0323">>, <<"O", "U+0323">>,
    <<"o", "U+0323">>, <<"O", "U+0309">>, <<"o", "U+0309">>,
    <<"O", "U+0302", "U+0301">>, <<"o", "U+0302", "U+0301">>,
    <<"O", "U+0302", "U+0300">>, <<"o", "U+0302", "U+0300">>,
    <<"O", "U+0302", "U+0309">>, <<"o", "U+0302", "U+0309">>,
    <<"O", "U+0302", "U+0303">>, <<"o", "U+0302", "U+0303">>,
    <<"O", "U+0323", "U+0302">>, <<"o", "U+0323", "U+0302">>,
    <<"O", "U+031B", "U+0301">>, <<"o", "U+031B", "U+0301">>,
    <<"O", "U+031B", "U+0300">>, <<"o", "U+031B", "U+0300">>,
    <<"O", "U+031B", "U+0309">>, <<"o", "U+031B", "U+0309">>,
    <<"O", "U+031B", "U+0303">>, <<"o", "U+031B", "U+0303">>,
    <<"O", "U+031B", "U+0323">>, <<"o", "U+031B", "U+0323">>, <<"U", "U+0323">>,
    <<"u", "U+0323">>, <<"U", "U+0309">>, <<"u", "U+0309">>,
    <<"U", "U+031B", "U+0301">>, <<"u", "U+031B", "U+0301">>,
    <<"U", "U+031B", "U+0300">>, <<"u", "U+031B", "U+0300">>,
    <<"U", "U+031B", "U+0309">>, <<"u", "U+031B", "U+0309">>,
    <<"U", "U+031B", "U+0303">>, <<"u", "U+031B", "U+0303">>,
    <<"U", "U+031B", "U+0323">>, <<"u", "U+031B", "U+0323">>, <<"Y", "U+0300">>,
    <<"y", "U+0300">>, <<"Y", "U+0323">>, <<"y", "U+0323">>, <<"Y", "U+0309">>,
    <<"y", "U+0309">>, <<"Y", "U+0303">>, <<"y", "U+0303">>, <<"U+03B1", "U+0313">>,
    <<"U+03B1", "U+0314">>, <<"U+03B1", "U+0313", "U+0300">>,
    <<"U+03B1", "U+0314", "U+0300">>, <<"U+03B1", "U+0313", "U+0301">>,
    <<"U+03B1", "U+0314", "U+0301">>, <<"U+03B1", "U+0313", "U+0342">>,
    <<"U+03B1", "U+0314", "U+0342">>, <<"U+0391", "U+0313">>, <<"U+0391", "U+0314">>,
    <<"U+0391", "U+0313", "U+0300">>, <<"U+0391", "U+0314", "U+0300">>,
    <<"U+0391", "U+0313", "U+0301">>, <<"U+0391", "U+0314", "U+0301">>,
    <<"U+0391", "U+0313", "U+0342">>, <<"U+0391", "U+0314", "U+0342">>,
    <<"U+03B5", "U+0313">>, <<"U+03B5", "U+0314">>, <<"U+03B5", "U+0313", "U+0300">>,
    <<"U+03B5", "U+0314", "U+0300">>, <<"U+03B5", "U+0313", "U+0301">>,
    <<"U+03B5", "U+0314", "U+0301">>, <<"U+0395", "U+0313">>, <<"U+0395", "U+0314">>,
    <<"U+0395", "U+0313", "U+0300">>, <<"U+0395", "U+0314", "U+0300">>,
    <<"U+0395", "U+0313", "U+0301">>, <<"U+0395", "U+0314", "U+0301">>,
    <<"U+03B7", "U+0313">>, <<"U+03B7", "U+0314">>, <<"U+03B7", "U+0313", "U+0300">>,
    <<"U+03B7", "U+0314", "U+0300">>, <<"U+03B7", "U+0313", "U+0301">>,
    <<"U+03B7", "U+0314", "U+0301">>, <<"U+03B7", "U+0313", "U+0342">>,
    <<"U+03B7", "U+0314", "U+0342">>, <<"U+0397", "U+0313">>, <<"U+0397", "U+0314">>,
    <<"U+0397", "U+0313", "U+0300">>, <<"U+0397", "U+0314", "U+0300">>,
    <<"U+0397", "U+0313", "U+0301">>, <<"U+0397", "U+0314", "U+0301">>,
    <<"U+0397", "U+0313", "U+0342">>, <<"U+0397", "U+0314", "U+0342">>,
    <<"U+03B9", "U+0313">>, <<"U+03B9", "U+0314">>, <<"U+03B9", "U+0313", "U+0300">>,
    <<"U+03B9", "U+0314", "U+0300">>, <<"U+03B9", "U+0313", "U+0301">>,
    <<"U+03B9", "U+0314", "U+0301">>, <<"U+03B9", "U+0313", "U+0342">>,
    <<"U+03B9", "U+0314", "U+0342">>, <<"U+0399", "U+0313">>, <<"U+0399", "U+0314">>,
    <<"U+0399", "U+0313", "U+0300">>, <<"U+0399", "U+0314", "U+0300">>,
    <<"U+0399", "U+0313", "U+0301">>, <<"U+0399", "U+0314", "U+0301">>,
    <<"U+0399", "U+0313", "U+0342">>, <<"U+0399", "U+0314", "U+0342">>,
    <<"U+03BF", "U+0313">>, <<"U+03BF", "U+0314">>, <<"U+03BF", "U+0313", "U+0300">>,
    <<"U+03BF", "U+0314", "U+0300">>, <<"U+03BF", "U+0313", "U+0301">>,
    <<"U+03BF", "U+0314", "U+0301">>, <<"U+039F", "U+0313">>, <<"U+039F", "U+0314">>,
    <<"U+039F", "U+0313", "U+0300">>, <<"U+039F", "U+0314", "U+0300">>,
    <<"U+039F", "U+0313", "U+0301">>, <<"U+039F", "U+0314", "U+0301">>,
    <<"U+03C5", "U+0313">>, <<"U+03C5", "U+0314">>, <<"U+03C5", "U+0313", "U+0300">>,
    <<"U+03C5", "U+0314", "U+0300">>, <<"U+03C5", "U+0313", "U+0301">>,
    <<"U+03C5", "U+0314", "U+0301">>, <<"U+03C5", "U+0313", "U+0342">>,
    <<"U+03C5", "U+0314", "U+0342">>, <<"U+03A5", "U+0314">>,
    <<"U+03A5", "U+0314", "U+0300">>, <<"U+03A5", "U+0314", "U+0301">>,
    <<"U+03A5", "U+0314", "U+0342">>, <<"U+03C9", "U+0313">>, <<"U+03C9", "U+0314">>,
    <<"U+03C9", "U+0313", "U+0300">>, <<"U+03C9", "U+0314", "U+0300">>,
    <<"U+03C9", "U+0313", "U+0301">>, <<"U+03C9", "U+0314", "U+0301">>,
    <<"U+03C9", "U+0313", "U+0342">>, <<"U+03C9", "U+0314", "U+0342">>,
    <<"U+03A9", "U+0313">>, <<"U+03A9", "U+0314">>, <<"U+03A9", "U+0313", "U+0300">>,
    <<"U+03A9", "U+0314", "U+0300">>, <<"U+03A9", "U+0313", "U+0301">>,
    <<"U+03A9", "U+0314", "U+0301">>, <<"U+03A9", "U+0313", "U+0342">>,
    <<"U+03A9", "U+0314", "U+0342">>, <<"U+03B1", "U+0300">>, <<"U+03B1", "U+0301">>,
    <<"U+03B5", "U+0300">>, <<"U+03B5", "U+0301">>, <<"U+03B7", "U+0300">>,
    <<"U+03B7", "U+0301">>, <<"U+03B9", "U+0300">>, <<"U+03B9", "U+0301">>,
    <<"U+03BF", "U+0300">>, <<"U+03BF", "U+0301">>, <<"U+03C5", "U+0300">>,
    <<"U+03C5", "U+0301">>, <<"U+03C9", "U+0300">>, <<"U+03C9", "U+0301">>,
    <<"U+03B1", "U+0313", "U+0345">>, <<"U+03B1", "U+0314", "U+0345">>,
    <<"U+03B1", "U+0313", "U+0300", "U+0345">>,
    <<"U+03B1", "U+0314", "U+0300", "U+0345">>,
    <<"U+03B1", "U+0313", "U+0301", "U+0345">>,
    <<"U+03B1", "U+0314", "U+0301", "U+0345">>,
    <<"U+03B1", "U+0313", "U+0342", "U+0345">>,
    <<"U+03B1", "U+0314", "U+0342", "U+0345">>, <<"U+0391", "U+0313", "U+0345">>,
    <<"U+0391", "U+0314", "U+0345">>, <<"U+0391", "U+0313", "U+0300", "U+0345">>,
    <<"U+0391", "U+0314", "U+0300", "U+0345">>,
    <<"U+0391", "U+0313", "U+0301", "U+0345">>,
    <<"U+0391", "U+0314", "U+0301", "U+0345">>,
    <<"U+0391", "U+0313", "U+0342", "U+0345">>,
    <<"U+0391", "U+0314", "U+0342", "U+0345">>, <<"U+03B7", "U+0313", "U+0345">>,
    <<"U+03B7", "U+0314", "U+0345">>, <<"U+03B7", "U+0313", "U+0300", "U+0345">>,
    <<"U+03B7", "U+0314", "U+0300", "U+0345">>,
    <<"U+03B7", "U+0313", "U+0301", "U+0345">>,
    <<"U+03B7", "U+0314", "U+0301", "U+0345">>,
    <<"U+03B7", "U+0313", "U+0342", "U+0345">>,
    <<"U+03B7", "U+0314", "U+0342", "U+0345">>, <<"U+0397", "U+0313", "U+0345">>,
    <<"U+0397", "U+0314", "U+0345">>, <<"U+0397", "U+0313", "U+0300", "U+0345">>,
    <<"U+0397", "U+0314", "U+0300", "U+0345">>,
    <<"U+0397", "U+0313", "U+0301", "U+0345">>,
    <<"U+0397", "U+0314", "U+0301", "U+0345">>,
    <<"U+0397", "U+0313", "U+0342", "U+0345">>,
    <<"U+0397", "U+0314", "U+0342", "U+0345">>, <<"U+03C9", "U+0313", "U+0345">>,
    <<"U+03C9", "U+0314", "U+0345">>, <<"U+03C9", "U+0313", "U+0300", "U+0345">>,
    <<"U+03C9", "U+0314", "U+0300", "U+0345">>,
    <<"U+03C9", "U+0313", "U+0301", "U+0345">>,
    <<"U+03C9", "U+0314", "U+0301", "U+0345">>,
    <<"U+03C9", "U+0313", "U+0342", "U+0345">>,
    <<"U+03C9", "U+0314", "U+0342", "U+0345">>, <<"U+03A9", "U+0313", "U+0345">>,
    <<"U+03A9", "U+0314", "U+0345">>, <<"U+03A9", "U+0313", "U+0300", "U+0345">>,
    <<"U+03A9", "U+0314", "U+0300", "U+0345">>,
    <<"U+03A9", "U+0313", "U+0301", "U+0345">>,
    <<"U+03A9", "U+0314", "U+0301", "U+0345">>,
    <<"U+03A9", "U+0313", "U+0342", "U+0345">>,
    <<"U+03A9", "U+0314", "U+0342", "U+0345">>, <<"U+03B1", "U+0306">>,
    <<"U+03B1", "U+0304">>, <<"U+03B1", "U+0300", "U+0345">>, <<"U+03B1", "U+0345">>,
    <<"U+03B1", "U+0301", "U+0345">>, <<"U+03B1", "U+0342">>,
    <<"U+03B1", "U+0342", "U+0345">>, <<"U+0391", "U+0306">>, <<"U+0391", "U+0304">>,
    <<"U+0391", "U+0300">>, <<"U+0391", "U+0301">>, <<"U+0391", "U+0345">>,
    <<"U+03B9">>, <<"¨", "U+0342">>, <<"U+03B7", "U+0300", "U+0345">>,
    <<"U+03B7", "U+0345">>, <<"U+03B7", "U+0301", "U+0345">>, <<"U+03B7", "U+0342">>,
    <<"U+03B7", "U+0342", "U+0345">>, <<"U+0395", "U+0300">>, <<"U+0395", "U+0301">>,
    <<"U+0397", "U+0300">>, <<"U+0397", "U+0301">>, <<"U+0397", "U+0345">>,
    <<"U+1FBF", "U+0300">>, <<"U+1FBF", "U+0301">>, <<"U+1FBF", "U+0342">>,
    <<"U+03B9", "U+0306">>, <<"U+03B9", "U+0304">>, <<"U+03B9", "U+0308", "U+0300">>,
    <<"U+03B9", "U+0308", "U+0301">>, <<"U+03B9", "U+0342">>,
    <<"U+03B9", "U+0308", "U+0342">>, <<"U+0399", "U+0306">>, <<"U+0399", "U+0304">>,
    <<"U+0399", "U+0300">>, <<"U+0399", "U+0301">>, <<"U+1FFE", "U+0300">>,
    <<"U+1FFE", "U+0301">>, <<"U+1FFE", "U+0342">>, <<"U+03C5", "U+0306">>,
    <<"U+03C5", "U+0304">>, <<"U+03C5", "U+0308", "U+0300">>,
    <<"U+03C5", "U+0308", "U+0301">>, <<"U+03C1", "U+0313">>, <<"U+03C1", "U+0314">>,
    <<"U+03C5", "U+0342">>, <<"U+03C5", "U+0308", "U+0342">>, <<"U+03A5", "U+0306">>,
    <<"U+03A5", "U+0304">>, <<"U+03A5", "U+0300">>, <<"U+03A5", "U+0301">>,
    <<"U+03A1", "U+0314">>, <<"¨", "U+0300">>, <<"¨", "U+0301">>, <<"U+0060">>,
    <<"U+03C9", "U+0300", "U+0345">>, <<"U+03C9", "U+0345">>,
    <<"U+03C9", "U+0301", "U+0345">>, <<"U+03C9", "U+0342">>,
    <<"U+03C9", "U+0342", "U+0345">>, <<"U+039F", "U+0300">>, <<"U+039F", "U+0301">>,
    <<"U+03A9", "U+0300">>, <<"U+03A9", "U+0301">>, <<"U+03A9", "U+0345">>, <<"´">>,
    <<"K">>, <<"A", "U+030A">>
  >>
Decomposable == {Accented[i] : i \in DOMAIN Accented}

\* the characters of category Mn (Unicode 14.0)
NonspacingMarks ==
  {
    "U+0300", "U+0301", "U+0302", "U+0303", "U+0304", "U+0305", "U+0306", "U+0307",
    "U+0308", "U+0309", "U+030A", "U+030B", "U+030C", "U+030D", "U+030E", "U+030F",
    "U+0310", "U+0311", "U+0312", "U+0313", "U+0314", "U+0315", "U+0316", "U+0317",
    "U+0318", "U+0319", "U+031A", "U+031B", "U+031C", "U+031D", "U+031E", "U+031F",
    "U+0320", "U+0321", "U+0322", "U+0323", "U+0324", "U+0325", "U+0326", "U+0327",
    "U+0328", "U+0329", "U+032A", "U+032B", "U+032C", "U+032D", "U+032E", "U+032F",
    "U+0330", "U+0331", "U+0332", "U+0333", "U+0334", "U+0335", "U+0336", "U+0337",
    "U+0338", "U+0339", "U+033A", "U+033B", "U+033C", "U+033D", "U+033E", "U+033F",
    "U+0340", "U+0341", "U+0342", "U+0343", "U+0344", "U+0345", "U+0346", "U+0347",
    "U+0348", "U+0349", "U+034A", "U+034B", "U+034C", "U+034D", "U+034E", "U+034F",
    "U+0350", "U+0351", "U+0352", "U+0353", "U+0354", "U+0355", "U+0356", "U+0357",
    "U+0358", "U+0359", "U+035A", "U+035B", "U+035C", "U+035D", "U+035E", "U+035F",
    "U+0360", "U+0361", "U+0362", "U+0363", "U+0364", "U+0365", "U+0366", "U+0367",
    "U+0368", "U+0369", "U+036A", "U+036B", "U+036C", "U+036D", "U+036E", "U+036F",
    "U+0483", "U+0484", "U+0485", "U+0486", "U+0487", "U+0591", "U+0592", "U+0593",
    "U+0594", "U+0595", "U+0596", "U+0597", "U+0598", "U+0599", "U+059A", "U+059B",
    "U+059C", "U+059D", "U+059E", "U+059F", "U+05A0", "U+05A1", "U+05A2", "U+05A3",
    "U+05A4", "U+05A5", "U+05A6", "U+05A7", "U+05A8", "U+05A9", "U+05AA", "U+05AB",
    "U+05AC", "U+05AD", "U+05AE", "U+05AF", "U+05B0", "U+05B1", "U+05B2", "U+05B3",
    "U+05B4", "U+05B5", "U+05B6", "U+05B7", "U+05B8", "U+05B9", "U+05BA", "U+05BB",
    "U+05BC", "U+05BD", "U+05BF", "U+05C1", "U+05C2", "U+05C4", "U+05C5", "U+05C7",
    "U+0610", "U+0611", "U+0612", "U+0613", "U+0614", "U+0615", "U+0616", "U+0617",
    "U+0618", "U+0619", "U+061A", "U+064B", "U+064C", "U+064D", "U+064E", "U+064F",
    "U+0650", "U+0651", "U+0652", "U+0653", "U+0654", "U+0655", "U+0656", "U+0657",
    "U+0658", "U+0659", "U+065A", "U+065B", "U+065C", "U+065D", "U+065E", "U+065F",
    "U+0670", "U+06D6", "U+06D7", "U+06D8", "U+06D9", "U+06DA", "U+06DB", "U+06DC",
    "U+06DF", "U+06E0", "U+06E1", "U+06E2", "U+06E3", "U+06E4", "U+06E7", "U+06E8",
    "U+06EA", "U+06EB", "U+06EC", "U+06ED", "U+0711", "U+0730", "U+0731", "U+0732",
    "U+0733", "U+0734", "U+0735", "U+0736", "U+0737", "U+0738", "U+0739", "U+073A",
    "U+073B", "U+073C", "U+073D", "U+073E", "U+073F", "U+0740", "U+0741", "U+0742",
    "U+0743", "U+0744", "U+0745", "U+0746", "U+0747", "U+0748", "U+0749", "U+074A",
    "U+07A6", "U+07A7", "U+07A8", "U+07A9", "U+07AA", "U+07AB", "U+07AC", "U+07AD",
    "U+07AE", "U+07AF", "U+07B0", "U+07EB", "U+07EC", "U+07ED", "U+07EE", "U+07EF",
    "U+07F0", "U+07F1", "U+07F2", "U+07F3", "U+07FD", "U+0816", "U+0817", "U+0818",
    "U+0819", "U+081B", "U+081C", "U+081D", "U+081E", "U+081F", "U+0820", "U+0821",
    "U+0822", "U+0823", "U+0825", "U+0826", "U+0827", "U+0829", "U+082A", "U+082B",
    "U+082C", "U+082D", "U+0859", "U+085A", "U+085B", "U+0898", "U+0899", "U+089A",
    "U+089B", "U+089C", "U+089D", "U+089E", "U+089F", "U+08CA", "U+08CB", "U+08CC",
    "U+08CD", "U+08CE", "U+08CF", "U+08D0", "U+08D1", "U+08D2", "U+08D3", "U+08D4",
    "U+08D5", "U+08D6", "U+08D7", "U+08D8", "U+08D9", "U+08DA", "U+08DB", "U+08DC",
    "U+08DD", "U+08DE", "U+08DF", "U+08E0", "U+08E1", "U+08E3", "U+08E4", "U+08E5",
    "U+08E6", "U+08E7", "U+08E8", "U+08E9", "U+08EA", "U+08EB", "U+08EC", "U+08ED",
    "U+08EE", "U+08EF", "U+08F0", "U+08F1", "U+08F2", "U+08F3", "U+08F4", "U+08F5",
    "U+08F6", "U+08F7", "U+08F8", "U+08F9", "U+08FA", "U+08FB", "U+08FC", "U+08FD",
    "U+08FE", "U+08FF", "U+0900", "U+0901", "U+0902", "U+093A", "U+093C", "U+0941",
    "U+0942", "U+0943", "U+0944", "U+0945", "U+0946", "U+0947", "U+0948", "U+094D",
    "U+0951", "U+0952", "U+0953", "U+0954", "U+0955", "U+0956", "U+0957", "U+0962",
    "U+0963", "U+0981", "U+09BC", "U+09C1", "U+09C2", "U+09C3", "U+09C4", "U+09CD",
    "U+09E2", "U+09E3", "U+09FE", "U+0A01", "U+0A02", "U+0A3C", "U+0A41", "U+0A42",
    "U+0A47", "U+0A48", "U+0A4B", "U+0A4C", "U+0A4D", "U+0A51", "U+0A70", "U+0A71",
    "U+0A75", "U+0A81", "U+0A82", "U+0ABC", "U+0AC1", "U+0AC2", "U+0AC3", "U+0AC4",
    "U+0AC5", "U+0AC7", "U+0AC8", "U+0ACD", "U+0AE2", "U+0AE3", "U+0AFA", "U+0AFB",
    "U+0AFC", "U+0AFD", "U+0AFE", "U+0AFF", "U+0B01", "U+0B3C", "U+0B3F", "U+0B41",
    "U+0B42", "U+0B43", "U+0B44", "U+0B4D", "U+0B55", "U+0B56", "U+0B62", "U+0B63",
    "U+0B82", "U+0BC0", "U+0BCD", "U+0C00", "U+0C04", "U+0C3C", "U+0C3E", "U+0C3F",
    "U+0C40", "U+0C46", "U+0C47", "U+0C48", "U+0C4A", "U+0C4B", "U+0C4C", "U+0C4D",
    "U+0C55", "U+0C56", "U+0C62", "U+0C63", "U+0C81", "U+0CBC", "U+0CBF", "U+0CC6",
    "U+0CCC", "U+0CCD", "U+0CE2", "U+0CE3", "U+0D00", "U+0D01", "U+0D3B", "U+0D3C",
    "U+0D41", "U+0D42", "U+0D43", "U+0D44", "U+0D4D", "U+0D62", "U+0D63", "U+0D81",
    "U+0DCA", "U+0DD2", "U+0DD3", "U+0DD4", "U+0DD6", "U+0E31", "U+0E34", "U+0E35",
    "U+0E36", "U+0E37", "U+0E38", "U+0E39", "U+0E3A", "U+0E47", "U+0E48", "U+0E49",
    "U+0E4A", "U+0E4B", "U+0E4C", "U+0E4D", "U+0E4E", "U+0EB1", "U+0EB4", "U+0EB5",
    "U+0EB6", "U+0EB7", "U+0EB8", "U+0EB9", "U+0EBA", "U+0EBB", "U+0EBC", "U+0EC8",
    "U+0EC9", "U+0ECA", "U+0ECB", "U+0ECC", "U+0ECD", "U+0F18", "U+0F19", "U+0F35",
    "U+0F37", "U+0F39", "U+0F71", "U+0F72", "U+0F73", "U+0F74", "U+0F75", "U+0F76",
    "U+0F77", "U+0F78", "U+0F79", "U+0F7A", "U+0F7B", "U+0F7C", "U+0F7D", "U+0F7E",
    "U+0F80", "U+0F81", "U+0F82", "U+0F83", "U+0F84", "U+0F86", "U+0F87", "U+0F8D",
    "U+0F8E", "U+0F8F", "U+0F90", "U+0F91", "U+0F92", "U+0F93", "U+0F94", "U+0F95",
    "U+0F96", "U+0F97", "U+0F99", "U+0F9A", "U+0F9B", "U+0F9C", "U+0F9D", "U+0F9E",
    "U+0F9F", "U+0FA0", "U+0FA1", "U+0FA2", "U+0FA3", "U+0FA4", "U+0FA5", "U+0FA6",
    "U+0FA7", "U+0FA8", "U+0FA9", "U+0FAA", "U+0FAB", "U+0FAC", "U+0FAD", "U+0FAE",
    "U+0FAF", "U+0FB0", "U+0FB1", "U+0FB2", "U+0FB3", "U+0FB4", "U+0FB5", "U+0FB6",
    "U+0FB7", "U+0FB8", "U+0FB9", "U+0FBA", "U+0FBB", "U+0FBC", "U+0FC6", "U+102D",
    "U+102E", "U+102F", "U+1030", "U+1032", "U+1033", "U+1034", "U+1035", "U+1036",
    "U+1037", "U+1039", "U+103A", "U+103D", "U+103E", "U+1058", "U+1059", "U+105E",
    "U+105F", "U+1060", "U+1071", "U+1072", "U+1073", "U+1074", "U+1082", "U+1085",
    "U+1086", "U+108D", "U+109D", "U+135D", "U+135E", "U+135F", "U+1712", "U+1713",
    "U+1714", "U+1732", "U+1733", "U+1752", "U+1753", "U+1772", "U+1773", "U+17B4",
    "U+17B5", "U+17B7", "U+17B8", "U+17B9", "U+17BA", "U+17BB", "U+17BC", "U+17BD",
    "U+17C6", "U+17C9", "U+17CA", "U+17CB", "U+17CC", "U+17CD", "U+17CE", "U+17CF",
    "U+17D0", "U+17D1", "U+17D2", "U+17D3", "U+17DD", "U+180B", "U+180C", "U+180D",
    "U+180F", "U+1885", "U+1886", "U+18A9", "U+1920", "U+1921", "U+1922", "U+1927",
    "U+1928", "U+1932", "U+1939", "U+193A", "U+193B", "U+1A17", "U+1A18", "U+1A1B",
    "U+1A56", "U+1A58", "U+1A59", "U+1A5A", "U+1A5B", "U+1A5C", "U+1A5D", "U+1A5E",
    "U+1A60", "U+1A62", "U+1A65", "U+1A66", "U+1A67", "U+1A68", "U+1A69", "U+1A6A",
    "U+1A6B", "U+1A6C", "U+1A73", "U+1A74", "U+1A75", "U+1A76", "U+1A77", "U+1A78",
    "U+1A79", "U+1A7A", "U+1A7B", "U+1A7C", "U+1A7F", "U+1AB0", "U+1AB1", "U+1AB2",
    "U+1AB3", "U+1AB4", "U+1AB5", "U+1AB6", "U+1AB7", "U+1AB8", "U+1AB9", "U+1ABA",
    "U+1ABB", "U+1ABC", "U+1ABD", "U+1ABF", "U+1AC0", "U+1AC1", "U+1AC2", "U+1AC3",
    "U+1AC4", "U+1AC5", "U+1AC6", "U+1AC7", "U+1AC8", "U+1AC9", "U+1ACA", "U+1ACB",
    "U+1ACC", "U+1ACD", "U+1ACE", "U+1B00", "U+1B01", "U+1B02", "U+1B03", "U+1B34",
    "U+1B36", "U+1B37", "U+1B38", "U+1B39", "U+1B3A", "U+1B3C", "U+1B42", "U+1B6B",
    "U+1B6C", "U+1B6D", "U+1B6E", "U+1B6F", "U+1B70", "U+1B71", "U+1B72", "U+1B73",
    "U+1B80", "U+1B81", "U+1BA2", "U+1BA3", "U+1BA4", "U+1BA5", "U+1BA8", "U+1BA9",
    "U+1BAB", "U+1BAC", "U+1BAD", "U+1BE6", "U+1BE8", "U+1BE9", "U+1BED", "U+1BEF",
    "U+1BF0", "U+1BF1", "U+1C2C", "U+1C2D", "U+1C2E", "U+1C2F", "U+1C30", "U+1C31",
    "U+1C32", "U+1C33", "U+1C36", "U+1C37", "U+1CD0", "U+1CD1", "U+1CD2", "U+1CD4",
    "U+1CD5", "U+1CD6", "U+1CD7", "U+1CD8", "U+1CD9", "U+1CDA", "U+1CDB", "U+1CDC",
    "U+1CDD", "U+1CDE", "U+1CDF", "U+1CE0", "U+1CE2", "U+1CE3", "U+1CE4", "U+1CE5",
    "U+1CE6", "U+1CE7", "U+1CE8", "U+1CED", "U+1CF4", "U+1CF8", "U+1CF9", "U+1DC0",
    "U+1DC1", "U+1DC2", "U+1DC3", "U+1DC4", "U+1DC5", "U+1DC6", "U+1DC7", "U+1DC8",
    "U+1DC9", "U+1DCA", "U+1DCB", "U+1DCC", "U+1DCD", "U+1DCE", "U+1DCF", "U+1DD0",
    "U+1DD1", "U+1DD2", "U+1DD3", "U+1DD4", "U+1DD5", "U+1DD6", "U+1DD7", "U+1DD8",
    "U+1DD9", "U+1DDA", "U+1DDB", "U+1DDC", "U+1DDD", "U+1DDE", "U+1DDF", "U+1DE0",
    "U+1DE1", "U+1DE2", "U+1DE3", "U+1DE4", "U+1DE5", "U+1DE6", "U+1DE7", "U+1DE8",
    "U+1DE9", "U+1DEA", "U+1DEB", "U+1DEC", "U+1DED", "U+1DEE", "U+1DEF", "U+1DF0",
    "U+1DF1", "U+1DF2", "U+1DF3", "U+1DF4", "U+1DF5", "U+1DF6", "U+1DF7", "U+1DF8",
    "U+1DF9", "U+1DFA", "U+1DFB", "U+1DFC", "U+1DFD", "U+1DFE", "U+1DFF", "U+20D0",
    "U+20D1", "U+20D2", "U+20D3", "U+20D4", "U+20D5", "U+20D6", "U+20D7", "U+20D8",
    "U+20D9", "U+20DA", "U+20DB", "U+20DC", "U+20E1", "U+20E5", "U+20E6", "U+20E7",
    "U+20E8", "U+20E9", "U+20EA", "U+20EB", "U+20EC", "U+20ED", "U+20EE", "U+20EF",
    "U+20F0", "U+2CEF", "U+2CF0", "U+2CF1", "U+2D7F", "U+2DE0", "U+2DE1", "U+2DE2",
    "U+2DE3", "U+2DE4", "U+2DE5", "U+2DE6", "U+2DE7", "U+2DE8", "U+2DE9", "U+2DEA",
    "U+2DEB", "U+2DEC", "U+2DED", "U+2DEE", "U+2DEF", "U+2DF0", "U+2DF1", "U+2DF2",
    "U+2DF3", "U+2DF4", "U+2DF5", "U+2DF6", "U+2DF7", "U+2DF8", "U+2DF9", "U+2DFA",
    "U+2DFB", "U+2DFC", "U+2DFD", "U+2DFE", "U+2DFF", "U+302A", "U+302B", "U+302C",
    "U+302D", "U+3099", "U+309A", "U+A66F", "U+A674", "U+A675", "U+A676", "U+A677",
    "U+A678", "U+A679", "U+A67A", "U+A67B", "U+A67C", "U+A67D", "U+A69E", "U+A69F",
    "U+A6F0", "U+A6F1", "U+A802", "U+A806", "U+A80B", "U+A825", "U+A826", "U+A82C",
    "U+A8C4", "U+A8C5", "U+A8E0", "U+A8E1", "U+A8E2", "U+A8E3", "U+A8E4", "U+A8E5",
    "U+A8E6", "U+A8E7", "U+A8E8", "U+A8E9", "U+A8EA", "U+A8EB", "U+A8EC", "U+A8ED",
    "U+A8EE", "U+A8EF", "U+A8F0", "U+A8F1", "U+A8FF", "U+A926", "U+A927", "U+A928",
    "U+A929", "U+A92A", "U+A92B", "U+A92C", "U+A92D", "U+A947", "U+A948", "U+A949",
    "U+A94A", "U+A94B", "U+A94C", "U+A94D", "U+A94E", "U+A94F", "U+A950", "U+A951",
    "U+A980", "U+A981", "U+A982", "U+A9B3", "U+A9B6", "U+A9B7", "U+A9B8", "U+A9B9",
    "U+A9BC", "U+A9BD", "U+A9E5", "U+AA29", "U+AA2A", "U+AA2B", "U+AA2C", "U+AA2D",
    "U+AA2E", "U+AA31", "U+AA32", "U+AA35", "U+AA36", "U+AA43", "U+AA4C", "U+AA7C",
    "U+AAB0", "U+AAB2", "U+AAB3", "U+AAB4", "U+AAB7", "U+AAB8", "U+AABE", "U+AABF",
    "U+AAC1", "U+AAEC", "U+AAED", "U+AAF6", "U+ABE5", "U+ABE8", "U+ABED", "U+FB1E",
    "U+FE00", "U+FE01", "U+FE02", "U+FE03", "U+FE04", "U+FE05", "U+FE06", "U+FE07",
    "U+FE08", "U+FE09", "U+FE0A", "U+FE0B", "U+FE0C", "U+FE0D", "U+FE0E", "U+FE0F",
    "U+FE20", "U+FE21", "U+FE22", "U+FE23", "U+FE24", "U+FE25", "U+FE26", "U+FE27",
    "U+FE28", "U+FE29", "U+FE2A", "U+FE2B", "U+FE2C", "U+FE2D", "U+FE2E", "U+FE2F",
    "U+101FD", "U+102E0", "U+10376", "U+10377", "U+10378", "U+10379", "U+1037A",
    "U+10A01", "U+10A02", "U+10A03", "U+10A05", "U+10A06", "U+10A0C", "U+10A0D",
    "U+10A0E", "U+10A0F", "U+10A38", "U+10A39", "U+10A3A", "U+10A3F", "U+10AE5",
    "U+10AE6", "U+10D24", "U+10D25", "U+10D26", "U+10D27", "U+10EAB", "U+10EAC",
    "U+10F46", "U+10F47", "U+10F48", "U+10F49", "U+10F4A", "U+10F4B", "U+10F4C",
    "U+10F4D", "U+10F4E", "U+10F4F", "U+10F50", "U+10F82", "U+10F83", "U+10F84",
    "U+10F85", "U+11001", "U+11038", "U+11039", "U+1103A", "U+1103B", "U+1103C",
    "U+1103D", "U+1103E", "U+1103F", "U+11040", "U+11041", "U+11042", "U+11043",
    "U+11044", "U+11045", "U+11046", "U+11070", "U+11073", "U+11074", "U+1107F",
    "U+11080", "U+11081", "U+110B3", "U+110B4", "U+110B5", "U+110B6", "U+110B9",
    "U+110BA", "U+110C2", "U+11100", "U+11101", "U+11102", "U+11127", "U+11128",
    "U+11129", "U+1112A", "U+1112B", "U+1112D", "U+1112E", "U+1112F", "U+11130",
    "U+11131", "U+11132", "U+11133", "U+11134", "U+11173", "U+11180", "U+11181",
    "U+111B6", "U+111B7", "U+111B8", "U+111B9", "U+111BA", "U+111BB", "U+111BC",
    "U+111BD", "U+111BE", "U+111C9", "U+111CA", "U+111CB", "U+111CC", "U+111CF",
    "U+1122F", "U+11230", "U+11231", "U+11234", "U+11236", "U+11237", "U+1123E",
    "U+112DF", "U+112E3", "U+112E4", "U+112E5", "U+112E6", "U+112E7", "U+112E8",
    "U+112E9", "U+112EA", "U+11300", "U+11301", "U+1133B", "U+1133C", "U+11340",
    "U+11366", "U+11367", "U+11368", "U+11369", "U+1136A", "U+1136B", "U+1136C",
    "U+11370", "U+11371", "U+11372", "U+11373", "U+11374", "U+11438", "U+11439",
    "U+1143A", "U+1143B", "U+1143C", "U+1143D", "U+1143E", "U+1143F", "U+11442",
    "U+11443", "U+11444", "U+11446", "U+1145E", "U+114B3", "U+114B4", "U+114B5",
    "U+114B6", "U+114B7", "U+114B8", "U+114BA", "U+114BF", "U+114C0", "U+114C2",
    "U+114C3", "U+115B2", "U+115B3", "U+115B4", "U+115B5", "U+115BC", "U+115BD",
    "U+115BF", "U+115C0", "U+115DC", "U+115DD", "U+11633", "U+11634", "U+11635",
    "U+11636", "U+11637", "U+11638", "U+11639", "U+1163A", "U+1163D", "U+1163F",
    "U+11640", "U+116AB", "U+116AD", "U+116B0", "U+116B1", "U+116B2", "U+116B3",
    "U+116B4", "U+116B5", "U+116B7", "U+1171D", "U+1171E", "U+1171F", "U+11722",
    "U+11723", "U+11724", "U+11725", "U+11727", "U+11728", "U+11729", "U+1172A",
    "U+1172B", "U+1182F", "U+11830", "U+11831", "U+11832", "U+11833", "U+11834",
    "U+11835", "U+11836", "U+11837", "U+11839", "U+1183A", "U+1193B", "U+1193C",
    "U+1193E", "U+11943", "U+119D4", "U+119D5", "U+119D6", "U+119D7", "U+119DA",
    "U+119DB", "U+119E0", "U+11A01", "U+11A02", "U+11A03", "U+11A04", "U+11A05",
    "U+11A06", "U+11A07", "U+11A08", "U+11A09", "U+11A0A", "U+11A33", "U+11A34",
    "U+11A35", "U+11A36", "U+11A37", "U+11A38", "U+11A3B", "U+11A3C", "U+11A3D",
    "U+11A3E", "U+11A47", "U+11A51", "U+11A52", "U+11A53", "U+11A54", "U+11A55",
    "U+11A56", "U+11A59", "U+11A5A", "U+11A5B", "U+11A8A", "U+11A8B", "U+11A8C",
    "U+11A8D", "U+11A8E", "U+11A8F", "U+11A90", "U+11A91", "U+11A92", "U+11A93",
    "U+11A94", "U+11A95", "U+11A96", "U+11A98", "U+11A99", "U+11C30", "U+11C31",
    "U+11C32", "U+11C33", "U+11C34", "U+11C35", "U+11C36", "U+11C38", "U+11C39",
    "U+11C3A", "U+11C3B", "U+11C3C", "U+11C3D", "U+11C3F", "U+11C92", "U+11C93",
    "U+11C94", "U+11C95", "U+11C96", "U+11C97", "U+11C98", "U+11C99", "U+11C9A",
    "U+11C9B", "U+11C9C", "U+11C9D", "U+11C9E", "U+11C9F", "U+11CA0", "U+11CA1",
    "U+11CA2", "U+11CA3", "U+11CA4", "U+11CA5", "U+11CA6", "U+11CA7", "U+11CAA",
    "U+11CAB", "U+11CAC", "U+11CAD", "U+11CAE", "U+11CAF", "U+11CB0", "U+11CB2",
    "U+11CB3", "U+11CB5", "U+11CB6", "U+11D31", "U+11D32", "U+11D33", "U+11D34",
    "U+11D35", "U+11D36", "U+11D3A", "U+11D3C", "U+11D3D", "U+11D3F", "U+11D40",
    "U+11D41", "U+11D42", "U+11D43", "U+11D44", "U+11D45", "U+11D47", "U+11D90",
    "U+11D91", "U+11D95", "U+11D97", "U+11EF3", "U+11EF4", "U+16AF0", "U+16AF1",
    "U+16AF2", "U+16AF3", "U+16AF4", "U+16B30", "U+16B31", "U+16B32", "U+16B33",
    "U+16B34", "U+16B35", "U+16B36", "U+16F4F", "U+16F8F", "U+16F90", "U+16F91",
    "U+16F92", "U+16FE4", "U+1BC9D", "U+1BC9E", "U+1CF00", "U+1CF01", "U+1CF02",
    "U+1CF03", "U+1CF04", "U+1CF05", "U+1CF06", "U+1CF07", "U+1CF08", "U+1CF09",
    "U+1CF0A", "U+1CF0B", "U+1CF0C", "U+1CF0D", "U+1CF0E", "U+1CF0F", "U+1CF10",
    "U+1CF11", "U+1CF12", "U+1CF13", "U+1CF14", "U+1CF15", "U+1CF16", "U+1CF17",
    "U+1CF18", "U+1CF19", "U+1CF1A", "U+1CF1B", "U+1CF1C", "U+1CF1D", "U+1CF1E",
    "U+1CF1F", "U+1CF20", "U+1CF21", "U+1CF22", "U+1CF23", "U+1CF24", "U+1CF25",
    "U+1CF26", "U+1CF27", "U+1CF28", "U+1CF29", "U+1CF2A", "U+1CF2B", "U+1CF2C",
    "U+1CF2D", "U+1CF30", "U+1CF31", "U+1CF32", "U+1CF33", "U+1CF34", "U+1CF35",
    "U+1CF36", "U+1CF37", "U+1CF38", "U+1CF39", "U+1CF3A", "U+1CF3B", "U+1CF3C",
    "U+1CF3D", "U+1CF3E", "U+1CF3F", "U+1CF40", "U+1CF41", "U+1CF42", "U+1CF43",
    "U+1CF44", "U+1CF45", "U+1CF46", "U+1D167", "U+1D168", "U+1D169", "U+1D17B",
    "U+1D17C", "U+1D17D", "U+1D17E", "U+1D17F", "U+1D180", "U+1D181", "U+1D182",
    "U+1D185", "U+1D186", "U+1D187", "U+1D188", "U+1D189", "U+1D18A", "U+1D18B",
    "U+1D1AA", "U+1D1AB", "U+1D1AC", "U+1D1AD", "U+1D242", "U+1D243", "U+1D244",
    "U+1DA00", "U+1DA01", "U+1DA02", "U+1DA03", "U+1DA04", "U+1DA05", "U+1DA06",
    "U+1DA07", "U+1DA08", "U+1DA09", "U+1DA0A", "U+1DA0B", "U+1DA0C", "U+1DA0D",
    "U+1DA0E", "U+1DA0F", "U+1DA10", "U+1DA11", "U+1DA12", "U+1DA13", "U+1DA14",
    "U+1DA15", "U+1DA16", "U+1DA17", "U+1DA18", "U+1DA19", "U+1DA1A", "U+1DA1B",
    "U+1DA1C", "U+1DA1D", "U+1DA1E", "U+1DA1F", "U+1DA20", "U+1DA21", "U+1DA22",
    "U+1DA23", "U+1DA24", "U+1DA25", "U+1DA26", "U+1DA27", "U+1DA28", "U+1DA29",
    "U+1DA2A", "U+1DA2B", "U+1DA2C", "U+1DA2D", "U+1DA2E", "U+1DA2F", "U+1DA30",
    "U+1DA31", "U+1DA32", "U+1DA33", "U+1DA34", "U+1DA35", "U+1DA36", "U+1DA3B",
    "U+1DA3C", "U+1DA3D", "U+1DA3E", "U+1DA3F", "U+1DA40", "U+1DA41", "U+1DA42",
    "U+1DA43", "U+1DA44", "U+1DA45", "U+1DA46", "U+1DA47", "U+1DA48", "U+1DA49",
    "U+1DA4A", "U+1DA4B", "U+1DA4C", "U+1DA4D", "U+1DA4E", "U+1DA4F", "U+1DA50",
    "U+1DA51", "U+1DA52", "U+1DA53", "U+1DA54", "U+1DA55", "U+1DA56", "U+1DA57",
    "U+1DA58", "U+1DA59", "U+1DA5A", "U+1DA5B", "U+1DA5C", "U+1DA5D", "U+1DA5E",
    "U+1DA5F", "U+1DA60", "U+1DA61", "U+1DA62", "U+1DA63", "U+1DA64", "U+1DA65",
    "U+1DA66", "U+1DA67", "U+1DA68", "U+1DA69", "U+1DA6A", "U+1DA6B", "U+1DA6C",
    "U+1DA75", "U+1DA84", "U+1DA9B", "U+1DA9C", "U+1DA9D", "U+1DA9E", "U+1DA9F",
    "U+1DAA1", "U+1DAA2", "U+1DAA3", "U+1DAA4", "U+1DAA5", "U+1DAA6", "U+1DAA7",
    "U+1DAA8", "U+1DAA9", "U+1DAAA", "U+1DAAB", "U+1DAAC", "U+1DAAD", "U+1DAAE",
    "U+1DAAF", "U+1E000", "U+1E001", "U+1E002", "U+1E003", "U+1E004", "U+1E005",
    "U+1E006", "U+1E008", "U+1E009", "U+1E00A", "U+1E00B", "U+1E00C", "U+1E00D",
    "U+1E00E", "U+1E00F", "U+1E010", "U+1E011", "U+1E012", "U+1E013", "U+1E014",
    "U+1E015", "U+1E016", "U+1E017", "U+1E018", "U+1E01B", "U+1E01C", "U+1E01D",
    "U+1E01E", "U+1E01F", "U+1E020", "U+1E021", "U+1E023", "U+1E024", "U+1E026",
    "U+1E027", "U+1E028", "U+1E029", "U+1E02A", "U+1E130", "U+1E131", "U+1E132",
    "U+1E133", "U+1E134", "U+1E135", "U+1E136", "U+1E2AE", "U+1E2EC", "U+1E2ED",
    "U+1E2EE", "U+1E2EF", "U+1E8D0", "U+1E8D1", "U+1E8D2", "U+1E8D3", "U+1E8D4",
    "U+1E8D5", "U+1E8D6", "U+1E944", "U+1E945", "U+1E946", "U+1E947", "U+1E948",
    "U+1E949", "U+1E94A", "U+E0100", "U+E0101", "U+E0102", "U+E0103", "U+E0104",
    "U+E0105", "U+E0106", "U+E0107", "U+E0108", "U+E0109", "U+E010A", "U+E010B",
    "U+E010C", "U+E010D", "U+E010E", "U+E010F", "U+E0110", "U+E0111", "U+E0112",
    "U+E0113", "U+E0114", "U+E0115", "U+E0116", "U+E0117", "U+E0118", "U+E0119",
    "U+E011A", "U+E011B", "U+E011C", "U+E011D", "U+E011E", "U+E011F", "U+E0120",
    "U+E0121", "U+E0122", "U+E0123", "U+E0124", "U+E0125", "U+E0126", "U+E0127",
    "U+E0128", "U+E0129", "U+E012A", "U+E012B", "U+E012C", "U+E012D", "U+E012E",
    "U+E012F", "U+E0130", "U+E0131", "U+E0132", "U+E0133", "U+E0134", "U+E0135",
    "U+E0136", "U+E0137", "U+E0138", "U+E0139", "U+E013A", "U+E013B", "U+E013C",
    "U+E013D", "U+E013E", "U+E013F", "U+E0140", "U+E0141", "U+E0142", "U+E0143",
    "U+E0144", "U+E0145", "U+E0146", "U+E0147", "U+E0148", "U+E0149", "U+E014A",
    "U+E014B", "U+E014C", "U+E014D", "U+E014E", "U+E014F", "U+E0150", "U+E0151",
    "U+E0152", "U+E0153", "U+E0154", "U+E0155", "U+E0156", "U+E0157", "U+E0158",
    "U+E0159", "U+E015A", "U+E015B", "U+E015C", "U+E015D", "U+E015E", "U+E015F",
    "U+E0160", "U+E0161", "U+E0162", "U+E0163", "U+E0164", "U+E0165", "U+E0166",
    "U+E0167", "U+E0168", "U+E0169", "U+E016A", "U+E016B", "U+E016C", "U+E016D",
    "U+E016E", "U+E016F", "U+E0170", "U+E0171", "U+E0172", "U+E0173", "U+E0174",
    "U+E0175", "U+E0176", "U+E0177", "U+E0178", "U+E0179", "U+E017A", "U+E017B",
    "U+E017C", "U+E017D", "U+E017E", "U+E017F", "U+E0180", "U+E0181", "U+E0182",
    "U+E0183", "U+E0184", "U+E0185", "U+E0186", "U+E0187", "U+E0188", "U+E0189",
    "U+E018A", "U+E018B", "U+E018C", "U+E018D", "U+E018E", "U+E018F", "U+E0190",
    "U+E0191", "U+E0192", "U+E0193", "U+E0194", "U+E0195", "U+E0196", "U+E0197",
    "U+E0198", "U+E0199", "U+E019A", "U+E019B", "U+E019C", "U+E019D", "U+E019E",
    "U+E019F", "U+E01A0", "U+E01A1", "U+E01A2", "U+E01A3", "U+E01A4", "U+E01A5",
    "U+E01A6", "U+E01A7", "U+E01A8", "U+E01A9", "U+E01AA", "U+E01AB", "U+E01AC",
    "U+E01AD", "U+E01AE", "U+E01AF", "U+E01B0", "U+E01B1", "U+E01B2", "U+E01B3",
    "U+E01B4", "U+E01B5", "U+E01B6", "U+E01B7", "U+E01B8", "U+E01B9", "U+E01BA",
    "U+E01BB", "U+E01BC", "U+E01BD", "U+E01BE", "U+E01BF", "U+E01C0", "U+E01C1",
    "U+E01C2", "U+E01C3", "U+E01C4", "U+E01C5", "U+E01C6", "U+E01C7", "U+E01C8",
    "U+E01C9", "U+E01CA", "U+E01CB", "U+E01CC", "U+E01CD", "U+E01CE", "U+E01CF",
    "U+E01D0", "U+E01D1", "U+E01D2", "U+E01D3", "U+E01D4", "U+E01D5", "U+E01D6",
    "U+E01D7", "U+E01D8", "U+E01D9", "U+E01DA", "U+E01DB", "U+E01DC", "U+E01DD",
    "U+E01DE", "U+E01DF", "U+E01E0", "U+E01E1", "U+E01E2", "U+E01E3", "U+E01E4",
    "U+E01E5", "U+E01E6", "U+E01E7", "U+E01E8", "U+E01E9", "U+E01EA", "U+E01EB",
    "U+E01EC", "U+E01ED", "U+E01EE", "U+E01EF"
  }

\* [a-z0-9] of the regular expression of line 301
AsciiAlnum == {"a", "b", "c", "d", "e", "f", "g", "h", "i", "j", "k", "l", "m",
               "n", "o", "p", "q", "r", "s", "t", "u", "v", "w", "x", "y", "z",
               "0", "1", "2", "3", "4", "5", "6", "7", "8", "9"}

\* the characters str.strip(), str.split() and \s take for white space:
\* those for which str.isspace() holds
Whitespace ==
  {
    "\t", "\n", "U+000B", "\f", "\r", "U+001C", "U+001D", "U+001E", "U+001F", " ",
    "U+0085", "U+00A0", "U+1680", "U+2000", "U+2001", "U+2002", "U+2003", "U+2004",
    "U+2005", "U+2006", "U+2007", "U+2008", "U+2009", "U+200A", "U+2028", "U+2029",
    "U+202F", "U+205F", "U+3000"
  }

IndexOf(seq, c) == CHOOSE i \in DOMAIN seq : seq[i] = c

\* what the table from -> to makes of c, keys being the characters of from
Translate(keys, from, to, c) == IF c \in keys THEN to[IndexOf(from, c)] ELSE <<c>>

\* "".join(parts)
RECURSIVE Flatten(_)
Flatten(parts) ==
    IF parts = << >> THEN << >> ELSE Head(parts) \o Flatten(Tail(parts))

RECURSIVE LStrip(_)
LStrip(text) ==
    IF text # << >> /\ Head(text) \in Whitespace THEN LStrip(Tail(text)) ELSE text

RECURSIVE RStrip(_)
RStrip(text) ==
    IF text # << >> /\ Last(text) \in Whitespace
    THEN RStrip(SubSeq(text, 1, Len(text) - 1))
    ELSE text

\* str.strip()
Strip(text) == LStrip(RStrip(text))

\* " ".join(text.split()): runs of white space become one space, those at
\* the ends are dropped
RECURSIVE Collapse(_)
Collapse(text) ==
    LET t == LStrip(text)
    IN  IF t = << >> THEN << >>
        ELSE IF Head(t) \in Whitespace THEN Collapse(Tail(t))
        ELSE IF Len(t) >= 2 /\ t[2] \in Whitespace
        THEN IF LStrip(Tail(t)) = << >>
             THEN <<Head(t)>>
             ELSE <<Head(t), " ">> \o Collapse(Tail(t))
        ELSE <<Head(t)>> \o Collapse(Tail(t))

\* _normalize_text (lines 294-302): lower case and stripped, the NFD form
\* without its characters of category Mn, every other character than
\* [a-z0-9\s] a space, white space collapsed. NFD is taken character by
\* character: the order it gives to the marks of a run of them is not
\* modelled, the marks being removed.
NormalizeText(text) ==
    LET lowered ==
            Strip(Flatten([i \in DOMAIN text |->
                              Translate(Cased, UpperCase, LowerCase, text[i])]))
        decomposed ==
            Flatten([i \in DOMAIN lowered |->
                        Translate(Decomposable, Accented, Decomposed, lowered[i])])
        without_accents == SelectSeq(decomposed, LAMBDA ch : ch \notin NonspacingMarks)
        alnum_spaces ==
            [i \in DOMAIN without_accents |->
                IF without_accents[i] \in AsciiAlnum \cup Whitespace
                THEN without_accents[i] ELSE " "]
    IN  Collapse(alnum_spaces)

KNOWN_LOW_ENERGY_HALLUCINATIONS ==
    { <<"g", "r", "a", "c", "i", "a", "s">>,
      <<"g", "r", "a", "c", "i", "a", "s", "!">>,
      <<"g", "r", "a", "c", "i", "a", "s", " ", "p", "o", "r", " ", "v", "e", "r">>,
      <<"s", "u", "s", "c", "r", "i", "b", "e", "t", "e">>,
      <<"s", "u", "s", "c", "r", "i", "b", "e", "t", "e", " ", "a", "l", " ", "c", "a", "n", "a", "l">>,
      <<"s", "u", "s", "c", "r", "i", "b", "e", "t", "e", " ", "a", " ", "m", "i", " ", "c", "a", "n", "a", "l">>,
      <<"s", "u", "s", "c", "r", "i", "b", "e", "t", "e", " ", "a", " ", "n", "u", "e", "s", "t", "r", "o", " ", "c", "a", "n", "a", "l">> }

KNOWN_LOW_ENERGY_HALLUCINATIONS_NORMALIZED ==
    {NormalizeText(x) : x \in KNOWN_LOW_ENERGY_HALLUCINATIONS}

\* ---------------------------------------------------------------------------
\* The floating-point arithmetic of lines 221 and 291
\* ---------------------------------------------------------------------------
\* A natural number of any size is the sequence of its bits, lowest first.
\* bits without their leading zeros
BitsTrim(a) ==
    IF \A i \in DOMAIN a : a[i] = 0 THEN << >>
    ELSE SubSeq(a, 1, CHOOSE i \in DOMAIN a :
                          a[i] = 1 /\ \A j \in (i + 1)..Len(a) : a[j] = 0)

\* the lowest w bits of a natural number below 2^31, and the bits of it
BitsOf(n, w) == [i \in 1..w |-> (n \div 2^(i - 1)) % 2]
Bits(n) == BitsTrim(BitsOf(n, 31))

\* the number a few bits stand for
RECURSIVE BitsValue(_)
BitsValue(a) == IF a = << >> THEN 0 ELSE Head(a) + 2 * BitsValue(Tail(a))

\* a + b + carry, fifteen bits at a time
RECURSIVE BitsAdd(_, _, _)
BitsAdd(a, b, carry) ==
    IF a = << >> /\ b = << >> THEN Bits(carry)
    ELSE LET s == BitsValue(SubSeq(a, 1, Min(15, Len(a))))
                    + BitsValue(SubSeq(b, 1, Min(15, Len(b)))) + carry
         IN  BitsOf(s, 15) \o BitsAdd(SubSeq(a, 16, Len(a)), SubSeq(b, 16, Len(b)),
                                      s \div 2^15)

\* a < b for bits without leading zeros
BitsLess(a, b) ==
    \/ Len(a) < Len(b)
    \/ /\ Len(a) = Len(b)
       /\ \E i \in DOMAIN a : a[i] < b[i] /\ \A j \in (i + 1)..Len(a) : a[j] = b[j]

\* quotient and remainder of a by a positive integer below 2^21, ten bits
\* at a time
RECURSIVE BitsDivMod(_, _)
BitsDivMod(a, n) ==
    IF a = << >> THEN [q |-> << >>, r |-> 0]
    ELSE LET high == BitsDivMod(SubSeq(a, 11, Len(a)), n)
             t == 2^10 * high.r + BitsValue(SubSeq(a, 1, Min(10, Len(a))))
         IN  [q |-> BitsOf(t \div n, 10) \o high.q, r |-> t % n]

\* integer square root of a (an even number of bits) and what is left of a,
\* two bits at a time; the root is below 2^28
RECURSIVE BitsSqrtRem(_)
BitsSqrtRem(a) ==
    IF a = << >> THEN [s |-> 0, r |-> 0]
    ELSE LET high == BitsSqrtRem(SubSeq(a, 3, Len(a)))
             t == 4 * high.r + 2 * a[2] + a[1]
             trial == 4 * high.s + 1
         IN  IF t >= trial THEN [s |-> 2 * high.s + 1, r |-> t - trial]
             ELSE [s |-> 2 * high.s, r |-> t]

\* A binary floating-point number is [m, e] for m * 2^e, m the bits of an odd
\* number; zero is Zero.
Zero == [m |-> << >>, e |-> 0]

\* the number m * 2^e, m any bits
Float(m, e) ==
    IF BitsTrim(m) = << >> THEN Zero
    ELSE LET low == CHOOSE i \in DOMAIN m : m[i] = 1 /\ \A j \in 1..(i - 1) : m[j] = 0
         IN  [m |-> SubSeq(BitsTrim(m), low, Len(BitsTrim(m))), e |-> e + low - 1]

\* the bits of x in units of 2^e, e no more than x.e
BitsAt(x, e) == IF x = Zero THEN << >> ELSE [i \in 1..(x.e - e) |-> 0] \o x.m

\* m * 2^e (and a little more when inexact) rounded to p significant bits,
\* to nearest and ties to even: roundTiesToEven of IEEE 754. When inexact, m
\* has more than p bits.
RoundTo(p, m, e, inexact) ==
    LET t == BitsTrim(m)
        d == Len(t) - p
        kept == SubSeq(t, d + 1, Len(t))
        below == inexact \/ \E i \in 1..(d - 1) : t[i] = 1
        up == t[d] = 1 /\ (below \/ kept[1] = 1)
    IN  IF d <= 0 THEN Float(t, e)
        ELSE Float(IF up THEN BitsAdd(kept, <<1>>, 0) ELSE kept, e + d)

\* x + y, x / n and the square root of x in precision p
FloatAdd(p, x, y) ==
    LET e == Min(x.e, y.e)
    IN  IF x = Zero THEN y
        ELSE IF y = Zero THEN x
        ELSE RoundTo(p, BitsAdd(BitsAt(x, e), BitsAt(y, e), 0), e, FALSE)

FloatDiv(p, x, n) ==
    LET k == p + 1 + Len(Bits(n))
        d == BitsDivMod(BitsAt(x, x.e - k), n)
    IN  IF x = Zero THEN Zero ELSE RoundTo(p, d.q, x.e - k, d.r # 0)

FloatSqrt(p, x) ==
    LET k == IF Len(x.m) < 2 * p + 2 THEN 2 * p + 2 - Len(x.m) ELSE 0
        e == IF (x.e - k) % 2 = 0 THEN x.e - k ELSE x.e - k - 1
        a == BitsAt(x, e)
        s == BitsSqrtRem(IF Len(a) % 2 = 0 THEN a ELSE a \o <<0>>)
    IN  IF x = Zero THEN Zero ELSE RoundTo(p, Bits(s.s), e \div 2, s.r # 0)

FloatLess(x, y) ==
    LET e == Min(x.e, y.e) IN BitsLess(BitsAt(x, e), BitsAt(y, e))

\* acc + a[i] + a[i + step] + ..., up to a[last], one addition after the
\* other in precision p
RECURSIVE SumFrom(_, _, _, _, _, _)
SumFrom(p, acc, a, i, step, last) ==
    IF i > last THEN acc
    ELSE SumFrom(p, FloatAdd(p, acc, a[i]), a, i + step, step, last)

\* numpy's sum of a float32 array (pairwise summation): fewer than 8 values
\* are added one after the other; up to 128 values are added into eight
\* sums, a[j], a[j + 8], ... each, that are added in pairs, and what is left
\* after the last eight is added then; more than that is cut in two near the
\* middle, at a multiple of 8
RECURSIVE PairwiseSum(_)
PairwiseSum(a) ==
    LET n == Len(a)
        whole == n - (n % 8)
        r == [j \in 1..8 |-> SumFrom(24, a[j], a, j + 8, 8, whole)]
        half == (n \div 2) - ((n \div 2) % 8)
    IN  IF n < 8 THEN SumFrom(24, Zero, a, 1, 1, n)
        ELSE IF n <= 128
        THEN SumFrom(24,
                     FloatAdd(24,
                         FloatAdd(24, FloatAdd(24, r[1], r[2]), FloatAdd(24, r[3], r[4])),
                         FloatAdd(24, FloatAdd(24, r[5], r[6]), FloatAdd(24, r[7], r[8]))),
                     a, whole + 1, 1, n)
        ELSE FloatAdd(24, PairwiseSum(SubSeq(a, 1, half)),
                          PairwiseSum(SubSeq(a, half + 1, n)))

\* the sum np.mean takes of np.square(pcm_int16.astype(np.float32)): every
\* square is a float32, and so is every partial sum
SumOfSquares(pcm) ==
    PairwiseSum([i \in DOMAIN pcm |-> RoundTo(24, Bits(pcm[i] * pcm[i]), 0, FALSE)])

\* line 221: np.mean divides the sum by the count in float64 and makes the
\* quotient a float32; np.sqrt of it is a float32
Rms(pcm) ==
    LET mean == FloatDiv(53, SumOfSquares(pcm), Len(pcm))
    IN  FloatSqrt(24, RoundTo(24, mean.m, mean.e, FALSE))

\* rms < floor
RmsBelow(rms, floor) == FloatLess(rms, Float(Bits(floor), 0))

\* lines 218-223 as they would be without the energy floor
SkipsEngine_OnlyWhenEmpty(pcm, rms) == Len(pcm) = 0

\* lines 218-223: no samples, or an RMS under the floor
SkipsEngine(pcm, rms) ==
    \/ Len(pcm) = 0
    \/ RmsBelow(rms, MIN_RMS_FOR_TRANSCRIPTION)

\* None, where a probability may stand: one that stands is <<p>>
NoProb == << >>

\* the float nearest to h hundredths, h from 0 to 100
HundredthsTable == [h \in 0..100 |-> FloatDiv(53, Float(Bits(h), 0), 100)]
Hundredths(h) == HundredthsTable[h]

\* sum(probs): the floats added to 0 one after the other
SumOfProbs(probs) == SumFrom(53, Zero, probs, 1, 1, Len(probs))

\* _extract_no_speech_prob (lines 272-291): the top-level probability and
\* those of the segments that have one, averaged; None when there is none
ExtractNoSpeechProb(raw) ==
    LET of_segments ==
            Flatten([i \in DOMAIN raw.segments |-> raw.segments[i].no_speech_prob])
        probs == [i \in DOMAIN (raw.no_speech_prob \o of_segments) |->
                     Hundredths((raw.no_speech_prob \o of_segments)[i])]
    IN  IF probs = << >> THEN NoProb
        ELSE <<FloatDiv(53, SumOfProbs(probs), Len(probs))>>

\* no_speech_prob is not None and no_speech_prob >= threshold
ProbAtLeast(prob, threshold) ==
    prob # NoProb /\ ~FloatLess(prob[1], Hundredths(threshold))

\* " ".join(segment_texts), each text stripped (lines 256-267)
RECURSIVE JoinStripped(_)
JoinStripped(segments) ==
    IF segments = << >> THEN << >>
    ELSE IF Len(segments) = 1 THEN Strip(segments[1].text)
    ELSE Strip(segments[1].text) \o <<" ">> \o JoinStripped(Tail(segments))

\* lines 252-268: the text of the result when there is one, else the texts
\* of its segments; a result without a "text" reads as one whose text is ""
DecodedText(raw) ==
    IF Strip(raw.text) # << >> THEN Strip(raw.text)
    ELSE Strip(JoinStripped(raw.segments))

\* line 319 as it would be without the rule
Suppressed_Never(prob) == FALSE

\* line 319: the averaged probability is at or over the suppression threshold
Suppressed(prob) == ProbAtLeast(prob, NO_SPEECH_SUPPRESS_THRESHOLD)

\* lines 322-329 as they would be with the energy floor alone
KnownHallucination_ByEnergyAlone(norm, rms, prob) ==
    /\ norm \in KNOWN_LOW_ENERGY_HALLUCINATIONS_NORMALIZED
    /\ RmsBelow(rms, MIN_RMS_FOR_KNOWN_HALLUCINATIONS)

\* lines 322-329: a known phrase, with a low energy or a probability at or
\* over the hallucination threshold
KnownHallucination(norm, rms, prob) ==
    /\ norm \in KNOWN_LOW_ENERGY_HALLUCINATIONS_NORMALIZED
    /\ \/ RmsBelow(rms, MIN_RMS_FOR_KNOWN_HALLUCINATIONS)
       \/ ProbAtLeast(prob, NO_SPEECH_HALLUCINATION_THRESHOLD)

\* _clean_transcript_text (lines 310-331)
CleanTranscriptText(text, rms, no_speech_prob) ==
    LET cleaned == Strip(text)
        norm == NormalizeText(cleaned)
    IN  IF cleaned = << >> THEN << >>
        ELSE IF norm = << >> THEN << >>
        ELSE IF Suppressed(no_speech_prob) THEN << >>
        ELSE IF KnownHallucination(norm, rms, no_speech_prob) THEN << >>
        ELSE cleaned

\* the samples, the texts and the probabilities the transcription step is
\* applied to
Amplitudes == {-230, 89, 90, 229}
PcmInputs == UNION {[1..n -> Amplitudes] : n \in 0..MaxSamples}
DecodedTexts ==
    { << >>,
      <<" ", "\r", "U+00A0">>,
      <<"h", "o", "l", "a", " ", "e", "q", "u", "i", "p", "o">>,
      <<" ", "H", "o", "l", "a", ",", " ", "e", "q", "u", "i", "p", "o", ".", "\r">>,
      <<"g", "r", "a", "c", "i", "a", "s">>,
      <<"¡", "G", "r", "a", "c", "i", "a", "s", "!">>,
      <<"G", "R", "À", "C", "I", "A", "S">>,
      <<"S", "u", "s", "c", "r", "í", "b", "e", "t", "e", " ", "a", " ", "m", "i", " ", "c", "a", "n", "a", "l">>,
      <<"¡", "S", "u", "s", "c", "r", "í", "b", "e", "t", "e", " ", "a", " ", "m", "i", " ", "c", "a", "n", "a", "l", "!">>,
      <<"¡", "!">>,
      <<"g", "r", "a", "c", "i", "a", "s", " ", "p", "o", "r", " ", "v", "e", "r", "t", "e">> }
TopProbs == {NoProb} \cup {<<p>> : p \in {45, 77, 78, 93}}
SegmentLists ==
    { << >>,
      <<[text |-> <<"g", "r", "a", "c", "i", "a", "s">>, no_speech_prob |-> <<93>>]>>,
      <<[text |-> <<" ", "h", "o", "l", "a", "\r">>, no_speech_prob |-> NoProb],
        [text |-> <<"e", "q", "u", "i", "p", "o", " ">>, no_speech_prob |-> NoProb]>>,
      <<[text |-> <<"g", "r", "a", "c", "i", "a", "s">>, no_speech_prob |-> <<100>>],
        [text |-> << >>, no_speech_prob |-> <<60>>]>>,
      <<[text |-> <<"g", "r", "a", "c", "i", "a", "s">>, no_speech_prob |-> <<6>>],
        [text |-> << >>, no_speech_prob |-> <<84>>]>>,
      <<[text |-> <<"h", "o", "l", "a">>, no_speech_prob |-> <<78>>],
        [text |-> <<"e", "q", "u", "i", "p", "o">>, no_speech_prob |-> <<78>>]>> }
RawResults ==
    [text : DecodedTexts, segments : SegmentLists, no_speech_prob : TopProbs]
\* whether mlx_whisper.transcribe accepts hallucination_silence_threshold
EngineKinds == {"accepts", "TypeError"}

\* now_hhmm: the wall clock is not modelled, every timestamp reads the same
now_hhmm == "hh:mm"

\* ---------------------------------------------------------------------------
\* server.py: state of one connection
\* ---------------------------------------------------------------------------
VARIABLES
    segmenter,           \* handle_connection: segmenter (a VADSegmenter)
    vad_speech,          \* the VAD: classification of the current run
    vad_left,            \* the VAD: frames left in the current run
    queue,               \* asyncio.Queue: the items held
    unfinished_tasks,    \* asyncio.Queue: puts not yet matched by task_done
    finalized_messages,  \* the transcript log
    title,               \* title_state["title"]
    session_audio,       \* accumulated raw audio, one element per frame
    session_started_at,  \* 0 is None, k is the time of the k-th session.start
    session_started,     \* TRUE is ACTIVE, FALSE is IDLE
    tasks,               \* handle_connection: tasks of the last push_frame
    conn_open,           \* the connection is open
    hpc,                 \* where handle_connection is suspended
    wpc,                 \* where transcription_worker is suspended
    wtask,               \* transcription_worker: task
    wtext,               \* transcription_worker: text
    in_flight,           \* transcribe_pcm_bytes calls in progress
    call_thread,         \* the thread the call in progress runs on
    enqueued,            \* history: every SegmentTask put, with its session
    engine_calls,        \* history: every task passed to transcribe_pcm_bytes
    results,             \* history: every outcome of transcribe_pcm_bytes
    appended,            \* history: every entry appended to the transcript
    sent,                \* history: every event sent over the connection
    persisted,           \* history: every call of persist_session
    received,            \* history: audio frames accepted
    fed,                 \* history: frames pushed to the segmenter since it
                         \* was constructed or last reset
    produced,            \* history: every task the segmenter returned
    utterances,          \* history: utterances opened by the segmenter
    onset_at,            \* history: position in fed of the last speech onset
    scenario,            \* history: the speech-then-silence pattern pushed
    op,                  \* history: the last call made on the segmenter
    seg_steps,           \* history: VAD runs and calls of the segmenter test
    handler_raised,      \* the exception that left the receive loop or the
                         \* finally block, if any
    tcall,               \* one call of transcribe_pcm_bytes: its arguments,
                         \* the engine it runs on, its position, its rms
                         \* and no_speech_prob, and its result
    cli                  \* one run of the command line: its environment,
                         \* its position and its exit code

vars == <<segmenter, vad_speech, vad_left, queue, unfinished_tasks,
          finalized_messages, title, session_audio, session_started_at,
          session_started, tasks, conn_open, hpc, wpc, wtask, wtext, in_flight,
          call_thread, enqueued, engine_calls, results, appended, sent, persisted, received,
          fed, produced, utterances, onset_at, scenario, op, seg_steps,
          handler_raised, tcall, cli>>

segVars == <<segmenter, vad_speech, vad_left>>
sessionVars == <<finalized_messages, title, session_audio, session_started_at,
                 session_started, received, fed>>
\* the history kept when the segmenter is driven on its own
harnessVars == <<produced, utterances, onset_at, scenario, op, seg_steps>>
workerVars == <<wpc, wtask, wtext, in_flight, call_thread, engine_calls, results,
                appended>>
\* the functions that are applied outside of a connection
callVars == <<tcall, cli>>

\* line 50 as it would be with transcribe_pcm_bytes called directly: the call
\* runs on the thread of the event loop
EngineThread_EventLoop == "loop"

\* line 50: asyncio.to_thread runs transcribe_pcm_bytes on a thread of the
\* executor
EngineThread == "executor"

\* handle_connection and transcription_worker are coroutines of one event
\* loop, which runs on one thread: neither is resumed while that thread runs
\* a call of transcribe_pcm_bytes
LoopFree == call_thread # "loop"

\* asyncio.Queue() (line 152): no maxsize is given, which makes it 0
QUEUE_MAXSIZE == 0

\* Queue.full() for a queue of qsize items: a queue of maxsize 0 never is
Full(qsize) == QUEUE_MAXSIZE > 0 /\ qsize >= QUEUE_MAXSIZE

\* the puts that take the queue from q to q2 return without suspending the
\* handler: none of them finds the queue full. A put that finds it full
\* suspends until the Worker takes an item, which is not modelled.
PutsAtOnce(q, q2) == \A qsize \in Len(q)..(Len(q2) - 1) : ~Full(qsize)

Event(type, text, segment_id, message) ==
    [type |-> type, text |-> text, segment_id |-> segment_id, message |-> message]

ErrorEvent(message) == Event("error", << >>, 0, message)

TranscriptEntry(segment_id, text) ==
    [segment_id |-> segment_id, timestamp |-> now_hhmm, speaker |-> "Locutor",
     text |-> text]

\* the protocol-error events sent so far
ProtocolErrors ==
    Cardinality({i \in DOMAIN sent : sent[i].type = "error"
                                     /\ sent[i].message # "transcription"})

\* history record of a put: the task and the session it was produced in
Enq(task) == [task |-> task, session |-> session_started_at]

EnqAll(ts) == [i \in DOMAIN ts |-> Enq(ts[i])]

\* the audio frames a client sends are all different: the n-th frame accepted
\* is represented by the content id n
NextFrame == received + 1

\* no speech-then-silence pattern is being pushed
NoScenario == [seed |-> 0, speech |-> 0, silence |-> 0, tasks |-> << >>]

\* no call was made on the segmenter yet
NoCall == [call |-> "none", before |-> NewSegmenter, is_speech |-> FALSE]

\* transcribe_pcm_bytes is not being called
NoTranscribeCall ==
    [pc |-> "none", pcm |-> << >>,
     raw |-> [text |-> << >>, segments |-> << >>, no_speech_prob |-> NoProb],
     engine |-> "accepts", invocations |-> 0, rms |-> Zero,
     no_speech_prob |-> NoProb, result |-> << >>]

\* the command line is not being run
NoCliRun ==
    [pc |-> "none", ffmpeg |-> "installed", ffprobe |-> "installed",
     file |-> "audio", engine |-> << >>, word_timestamps |-> FALSE,
     output |-> "writable", validated |-> 0, calls |-> << >>,
     raised |-> "none", failure |-> "none", result |-> << >>, exit_code |-> -1]

\* handle_connection, lines 150-163: the state of a connection just accepted
ConnectionInit ==
    /\ segmenter = NewSegmenter
    /\ vad_speech = FALSE
    /\ vad_left = 0
    /\ queue = << >>
    /\ unfinished_tasks = 0
    /\ finalized_messages = << >>
    /\ title = << >>
    /\ session_audio = << >>
    /\ session_started_at = 0
    /\ session_started = FALSE
    /\ tasks = << >>
    /\ conn_open = TRUE
    /\ hpc = "recv"
    /\ wpc = "get"
    /\ wtask = NoTask
    /\ wtext = << >>
    /\ in_flight = 0
    /\ call_thread = "none"
    /\ enqueued = << >>
    /\ engine_calls = << >>
    /\ results = << >>
    /\ appended = << >>
    /\ sent = << >>
    /\ persisted = << >>
    /\ received = 0
    /\ fed = << >>
    /\ produced = << >>
    /\ utterances = 0
    /\ onset_at = 0
    /\ scenario = NoScenario
    /\ op = NoCall
    /\ seg_steps = 0
    /\ handler_raised = "none"

Init ==
    /\ ConnectionInit
    /\ tcall = NoTranscribeCall
    /\ cli = NoCliRun

\* ---------------------------------------------------------------------------
\* handle_connection: admission control (lines 190-196)
\* ---------------------------------------------------------------------------
\* any(task.kind == "final" for task in tasks)
HasFinal(ts) == \E i \in DOMAIN ts : ts[i].kind = "final"

\* line 192 as it would be without the rule
SupersededInBatch_Never(has_final, kind) == FALSE

\* line 192: has_final and task.kind == "partial"
SupersededInBatch(has_final, kind) == has_final /\ kind = "partial"

\* line 194 as it would be with > for >=
BacklogFull_OffByOne(kind, qsize) == kind = "partial" /\ qsize > MAX_PARTIAL_BACKLOG

\* line 194: task.kind == "partial" and queue.qsize() >= MAX_PARTIAL_BACKLOG
BacklogFull(kind, qsize) == kind = "partial" /\ qsize >= MAX_PARTIAL_BACKLOG

\* the for loop: the queue after the tasks of one push_frame were considered
RECURSIVE AdmitLoop(_, _, _)
AdmitLoop(ts, has_final, q) ==
    IF ts = << >> THEN q
    ELSE LET task == Head(ts)
         IN  IF SupersededInBatch(has_final, task.kind)
             THEN AdmitLoop(Tail(ts), has_final, q)
             ELSE IF BacklogFull(task.kind, Len(q))
             THEN AdmitLoop(Tail(ts), has_final, q)
             ELSE AdmitLoop(Tail(ts), has_final, Append(q, task))

Admit(ts, q) == AdmitLoop(ts, HasFinal(ts), q)

\* the items a queue gained
Gained(q, q2) == SubSeq(q2, Len(q) + 1, Len(q2))

\* persist_session(started_at, audio_pcm, finalized_messages, title)
PersistCall(path) ==
    [started_at |-> session_started_at, audio_pcm |-> session_audio,
     finalized_messages |-> finalized_messages, title |-> title, path |-> path]


\* ---------------------------------------------------------------------------
\* handle_connection: the receive loop (lines 164-252)
\* ---------------------------------------------------------------------------
\* line 188 as it would be if the frame were put in front
Extend_InFront(audio, frame) == <<frame>> \o audio

\* line 188: session_audio.extend(message)
Extend(audio, frame) == Append(audio, frame)

\* the runs the VAD may start: <<is_speech, frames>>
VadRuns == ({TRUE} \X SpeechRuns) \cup ({FALSE} \X SilenceRuns)

\* the client sends its control messages between two runs of audio
BetweenRuns == vad_left = 0

\* a protocol error is answered with an error event and the loop continues
ProtocolError(message) ==
    /\ hpc = "recv"
    /\ LoopFree
    /\ conn_open
    /\ ProtocolErrors < MaxProtocolErrors
    /\ BetweenRuns
    /\ sent' = Append(sent, ErrorEvent(message))
    /\ UNCHANGED <<segVars, harnessVars, queue, unfinished_tasks, sessionVars, tasks,
                   conn_open, hpc, workerVars, enqueued, persisted,
                   handler_raised, callVars>>

\* lines 165-174 as they would be if the test of session_started came after
\* push_frame and session_audio.extend
RecvAudioIdle_AfterPush ==
    /\ ~session_started
    /\ hpc = "recv"
    /\ conn_open
    /\ ProtocolErrors < MaxProtocolErrors
    /\ BetweenRuns
    /\ segmenter' = PushFrame(segmenter, NextFrame, FRAME_BYTES, FALSE).seg
    /\ session_audio' = Append(session_audio, NextFrame)
    /\ sent' = Append(sent, ErrorEvent("Audio received before session.start"))
    /\ UNCHANGED <<vad_speech, vad_left, harnessVars, queue, unfinished_tasks,
                   finalized_messages, title, session_started_at,
                   session_started, received, fed, tasks, conn_open, hpc,
                   workerVars, enqueued, persisted, handler_raised, callVars>>

\* lines 165-174: a binary message while no session is started
RecvAudioIdle ==
    /\ ~session_started
    /\ ProtocolError("Audio received before session.start")

\* lines 176-186: push_frame raises ValueError on a frame of the wrong size
RecvBadFrame ==
    /\ session_started
    /\ \E size \in {FRAME_BYTES + 1} :
          /\ PushFrame(segmenter, 0, size, FALSE).error
          /\ ProtocolError("Invalid frame size")

\* lines 200-210: a text message that is not JSON
RecvInvalidJson ==
    /\ hpc = "recv"
    /\ ProtocolError("Invalid JSON control message")

\* lines 246-252: a control message of an unknown type
RecvUnsupported ==
    /\ hpc = "recv"
    /\ ProtocolError("Unsupported control message type")

\* lines 176-198: a binary message while a session is started; max_frames
\* bounds the frames accepted on the connection and runs are the runs the
\* VAD may start. The frame is taken in one step: the handler is resumed
\* with the message and no put suspends it.
RecvAudioFrom(max_frames, runs) ==
    /\ hpc = "recv"
    /\ LoopFree
    /\ conn_open
    /\ session_started
    /\ received < max_frames
    /\ received' = received + 1
    /\ \E frame \in {NextFrame} :
       \E run \in (IF vad_left = 0 THEN runs ELSE {<<vad_speech, vad_left>>}) :
          LET r == PushFrame(segmenter, frame, FRAME_BYTES, run[1])
              q == Admit(r.tasks, queue)
          IN  /\ ~r.error
              /\ PutsAtOnce(queue, q)
              /\ vad_speech' = run[1]
              /\ vad_left' = run[2] - 1
              /\ segmenter' = r.seg
              /\ tasks' = r.tasks
              /\ session_audio' = Extend(session_audio, frame)
              /\ fed' = Append(fed, frame)
              /\ queue' = q
              /\ unfinished_tasks' = unfinished_tasks + (Len(q) - Len(queue))
              /\ enqueued' = enqueued \o EnqAll(Gained(queue, q))
    /\ UNCHANGED <<finalized_messages, title, session_started_at,
                   session_started, conn_open, hpc, workerVars, sent, persisted,
                   harnessVars, handler_raised, callVars>>

RecvAudioUpTo(max_frames) == RecvAudioFrom(max_frames, VadRuns)

RecvAudio == RecvAudioUpTo(MaxAudioFrames)

\* lines 214-222: session.start; max_sessions bounds the sessions started.
\* The audio of a new session starts with a new run of the VAD.
RecvSessionStartUpTo(max_sessions) ==
    /\ hpc = "recv"
    /\ LoopFree
    /\ conn_open
    /\ session_started_at < max_sessions
    /\ BetweenRuns
    /\ segmenter' = Reset(segmenter)
    /\ vad_left' = 0
    /\ finalized_messages' = << >>
    /\ title' = << >>
    /\ session_audio' = << >>
    /\ session_started_at' = session_started_at + 1
    /\ session_started' = TRUE
    /\ fed' = << >>
    /\ UNCHANGED received
    /\ sent' = Append(sent, Event("session.ready", << >>, 0, ""))
    /\ UNCHANGED <<vad_speech, queue, unfinished_tasks, tasks, conn_open, hpc,
                   workerVars, enqueued, persisted, harnessVars,
                   handler_raised, callVars>>

RecvSessionStart == RecvSessionStartUpTo(MaxSessions)

\* segmenter.flush() and the put of each task it returns (lines 225-226 and
\* 257-258), up to the queue.join() that follows
FlushAndPut ==
    LET f == Flush(segmenter)
    IN  /\ PutsAtOnce(queue, queue \o f.tasks)
        /\ segmenter' = f.seg
        /\ queue' = queue \o f.tasks
        /\ unfinished_tasks' = unfinished_tasks + Len(f.tasks)
        /\ enqueued' = enqueued \o EnqAll(f.tasks)

\* lines 224-227: session.stop, up to queue.join()
RecvSessionStop ==
    /\ hpc = "recv"
    /\ LoopFree
    /\ conn_open
    /\ Len(persisted) < MaxStops
    /\ BetweenRuns
    /\ FlushAndPut
    /\ hpc' = "stop_join"
    /\ UNCHANGED <<vad_speech, vad_left, sessionVars, tasks, conn_open,
                   workerVars, sent, persisted, harnessVars, handler_raised, callVars>>

\* queue.join() as it would be if it did not wait
QueueJoined_AtOnce(unfinished) == TRUE

\* asyncio.Queue.join (lines 227 and 259) returns when every item put was
\* matched by a task_done
QueueJoined(unfinished) == unfinished = 0

\* lines 227-235: queue.join() returns, persist_session is started in a thread
StopJoined ==
    /\ hpc = "stop_join"
    /\ LoopFree
    /\ QueueJoined(unfinished_tasks)
    /\ IF session_started_at # 0
       THEN /\ persisted' = Append(persisted, PersistCall("stop"))
            /\ hpc' = "stop_persist"
            /\ UNCHANGED session_started
       ELSE /\ session_started' = FALSE
            /\ hpc' = "recv"
            /\ UNCHANGED persisted
    /\ UNCHANGED <<segVars, harnessVars, queue, unfinished_tasks, finalized_messages, title,
                   session_audio, session_started_at, tasks, conn_open,
                   workerVars, enqueued, sent, received, fed, handler_raised, callVars>>

\* lines 253-259 and 273: the finally block, up to queue.join() when a session
\* is started, up to `await worker` otherwise
EnterFinally ==
    IF session_started
    THEN /\ FlushAndPut
         /\ hpc' = "fin_join"
    ELSE /\ PutsAtOnce(queue, Append(queue, NoTask))
         /\ queue' = Append(queue, NoTask)
         /\ unfinished_tasks' = unfinished_tasks + 1
         /\ hpc' = "await_worker"
         /\ UNCHANGED <<segmenter, enqueued>>

\* lines 228-242: persist_session returned; the send of session.saved starts,
\* or raises ConnectionClosed at once on a closed connection (line 253)
StopPersisted ==
    /\ hpc = "stop_persist"
    /\ LoopFree
    /\ IF conn_open
       THEN /\ sent' = Append(sent, Event("session.saved", << >>, 0, ""))
            /\ hpc' = "stop_send"
            /\ UNCHANGED <<segmenter, queue, unfinished_tasks, enqueued>>
       ELSE /\ EnterFinally
            /\ UNCHANGED sent
    /\ UNCHANGED <<vad_speech, vad_left, sessionVars, tasks, conn_open,
                   workerVars, persisted, harnessVars, handler_raised, callVars>>

\* lines 229-235: persist_session raised (the output directory cannot be
\* written); no except clause handles the exception, the finally block runs
StopPersistFailed ==
    /\ hpc = "stop_persist"
    /\ LoopFree
    /\ handler_raised' = "OSError"
    /\ EnterFinally
    /\ UNCHANGED <<vad_speech, vad_left, sessionVars, tasks, conn_open,
                   workerVars, sent, persisted, harnessVars, callVars>>

\* lines 236-244: the send of session.saved completed and the session becomes
\* IDLE, or the connection closed during the send, which raises
\* ConnectionClosed (line 253)
StopSaved ==
    /\ hpc = "stop_send"
    /\ LoopFree
    /\ IF conn_open
       THEN /\ session_started' = FALSE
            /\ hpc' = "recv"
            /\ UNCHANGED <<segmenter, queue, unfinished_tasks, enqueued>>
       ELSE /\ EnterFinally
            /\ UNCHANGED session_started
    /\ UNCHANGED <<vad_speech, vad_left, finalized_messages, title,
                   session_audio, session_started_at, tasks, conn_open,
                   workerVars, sent, persisted, received, fed, harnessVars,
                   handler_raised, callVars>>

\* line 164: the iteration over the connection ends because it is closed
RecvClosed ==
    /\ hpc = "recv"
    /\ LoopFree
    /\ ~conn_open
    /\ EnterFinally
    /\ UNCHANGED <<vad_speech, vad_left, sessionVars, tasks, conn_open,
                   workerVars, sent, persisted, harnessVars, handler_raised, callVars>>

\* lines 200-212: a text message that is JSON but not an object (an array, a
\* string, a number, null): json.loads returns, data.get raises
\* AttributeError, which no except clause of handle_connection handles; the
\* finally block runs and the exception leaves handle_connection
RecvNonObjectJson ==
    /\ hpc = "recv"
    /\ LoopFree
    /\ conn_open
    /\ BetweenRuns
    /\ handler_raised' = "AttributeError"
    /\ EnterFinally
    /\ UNCHANGED <<vad_speech, vad_left, sessionVars, tasks, conn_open,
                   workerVars, sent, persisted, harnessVars, callVars>>

\* lines 259-268: queue.join() returns in the finally block
FinallyJoined ==
    /\ hpc = "fin_join"
    /\ LoopFree
    /\ QueueJoined(unfinished_tasks)
    /\ IF session_started_at # 0
       THEN /\ persisted' = Append(persisted, PersistCall("finally"))
            /\ hpc' = "fin_persist"
            /\ UNCHANGED <<queue, unfinished_tasks>>
       ELSE /\ PutsAtOnce(queue, Append(queue, NoTask))
            /\ queue' = Append(queue, NoTask)
            /\ unfinished_tasks' = unfinished_tasks + 1
            /\ hpc' = "await_worker"
            /\ UNCHANGED persisted
    /\ UNCHANGED <<segVars, harnessVars, sessionVars, tasks, conn_open, workerVars,
                   enqueued, sent, handler_raised, callVars>>

\* lines 262-269: persist_session returned in the finally block; the send of
\* session.saved starts, or raises ConnectionClosed at once on a closed
\* connection, which is ignored (lines 270-271), and the sentinel is put
FinallyPersisted ==
    /\ hpc = "fin_persist"
    /\ LoopFree
    /\ IF conn_open
       THEN /\ sent' = Append(sent, Event("session.saved", << >>, 0, ""))
            /\ hpc' = "fin_send"
            /\ UNCHANGED <<queue, unfinished_tasks>>
       ELSE /\ PutsAtOnce(queue, Append(queue, NoTask))
            /\ queue' = Append(queue, NoTask)
            /\ unfinished_tasks' = unfinished_tasks + 1
            /\ hpc' = "await_worker"
            /\ UNCHANGED sent
    /\ UNCHANGED <<segVars, harnessVars, sessionVars, tasks, conn_open, workerVars,
                   enqueued, persisted, handler_raised, callVars>>

\* lines 262-271: persist_session raised in the finally block; only
\* ConnectionClosed is caught, the exception leaves handle_connection, the
\* sentinel is not put and the worker is not awaited
FinallyPersistFailed ==
    /\ hpc = "fin_persist"
    /\ LoopFree
    /\ handler_raised' = "OSError"
    /\ hpc' = "done"
    /\ UNCHANGED <<segVars, harnessVars, queue, unfinished_tasks, sessionVars, tasks,
                   conn_open, workerVars, enqueued, sent, persisted, callVars>>

\* lines 269-273: the send of session.saved completed or raised
\* ConnectionClosed, which is ignored; put(None)
FinallySaved ==
    /\ hpc = "fin_send"
    /\ LoopFree
    /\ PutsAtOnce(queue, Append(queue, NoTask))
    /\ queue' = Append(queue, NoTask)
    /\ unfinished_tasks' = unfinished_tasks + 1
    /\ hpc' = "await_worker"
    /\ UNCHANGED <<segVars, harnessVars, sessionVars, tasks, conn_open, workerVars,
                   enqueued, sent, persisted, handler_raised, callVars>>

\* line 274: await worker
WorkerAwaited ==
    /\ hpc = "await_worker"
    /\ LoopFree
    /\ wpc = "done"
    /\ hpc' = "done"
    /\ UNCHANGED <<segVars, harnessVars, queue, unfinished_tasks, sessionVars, tasks,
                   conn_open, workerVars, enqueued, sent, persisted,
                   handler_raised, callVars>>

\* the peer or the network closes the connection
Disconnect ==
    /\ conn_open
    /\ hpc # "done"
    /\ conn_open' = FALSE
    /\ UNCHANGED <<segVars, harnessVars, queue, unfinished_tasks, sessionVars, tasks, hpc,
                   workerVars, enqueued, sent, persisted, handler_raised, callVars>>


\* ---------------------------------------------------------------------------
\* transcription_worker (lines 35-103)
\* ---------------------------------------------------------------------------
\* line 48 as it would be without the test of the kind
StaleSkip_AnyKind(kind, qsize) == qsize > 0

\* line 48 as it would be without the skip
StaleSkip_Never(kind, qsize) == FALSE

\* line 48: task.kind == "partial" and queue.qsize() > 0
StaleSkip(kind, qsize) == kind = "partial" /\ qsize > 0

\* line 50 as it would be if the thread were started and not awaited
AwaitTranscription_NotAwaited == "get"

\* line 50: the worker awaits the thread running transcribe_pcm_bytes
AwaitTranscription == "transcribe"

\* what transcribe_pcm_bytes can do: return a text or raise
Outcomes == [text : EngineTexts, raised : {FALSE}] \cup
            [text : {<< >>}, raised : {TRUE}]

\* lines 42-50: an item is dequeued; the sentinel ends the worker, a stale
\* partial is dropped, any other task is passed to transcribe_pcm_bytes
WorkerGet ==
    /\ wpc = "get"
    /\ LoopFree
    /\ queue # << >>
    /\ LET task == Head(queue)
       IN  /\ queue' = Tail(queue)
           /\ IF task = NoTask
              THEN /\ unfinished_tasks' = unfinished_tasks - 1
                   /\ wpc' = "done"
                   /\ UNCHANGED <<wtask, in_flight, call_thread, engine_calls>>
              ELSE IF StaleSkip(task.kind, Len(Tail(queue)))
              THEN /\ unfinished_tasks' = unfinished_tasks - 1
                   /\ UNCHANGED <<wpc, wtask, in_flight, call_thread, engine_calls>>
              ELSE /\ wtask' = task
                   /\ in_flight' = in_flight + 1
                   /\ call_thread' = EngineThread
                   /\ engine_calls' = Append(engine_calls, task)
                   /\ wpc' = AwaitTranscription
                   /\ UNCHANGED unfinished_tasks
    /\ UNCHANGED <<segVars, harnessVars, sessionVars, tasks, conn_open, hpc, wtext, results,
                   appended, enqueued, sent, persisted, handler_raised, callVars>>

\* lines 94-103 as they would be if task_done() came after the try statement
\* and not in its finally clause: the break on ConnectionClosed skips it
WorkerTaskDone_NotInFinally(closed) ==
    /\ unfinished_tasks' = IF closed THEN unfinished_tasks ELSE unfinished_tasks - 1
    /\ wpc' = IF closed THEN "done" ELSE "get"

\* the worker leaves its loop on ConnectionClosed (lines 94-95, 100-101) or
\* goes back to queue.get(); task_done() runs in both cases (line 103)
WorkerTaskDone(closed) ==
    /\ unfinished_tasks' = unfinished_tasks - 1
    /\ wpc' = IF closed THEN "done" ELSE "get"

\* lines 50-75 and 96-99: transcribe_pcm_bytes returns or raises; an empty
\* text ends the item, otherwise the send of the event starts, or raises
\* ConnectionClosed at once on a closed connection
WorkerTranscribed ==
    /\ wpc = "transcribe"
    /\ \E o \in Outcomes :
          /\ results' = Append(results, [task |-> wtask, text |-> o.text,
                                         raised |-> o.raised])
          /\ in_flight' = in_flight - 1
          /\ call_thread' = "none"
          /\ IF ~o.raised /\ o.text = << >>
             THEN /\ WorkerTaskDone(FALSE)
                  /\ UNCHANGED <<sent, wtext>>
             ELSE IF ~conn_open
             THEN /\ WorkerTaskDone(TRUE)
                  /\ UNCHANGED <<sent, wtext>>
             ELSE IF o.raised
             THEN /\ sent' = Append(sent, ErrorEvent("transcription"))
                  /\ wpc' = "send_error"
                  /\ UNCHANGED <<unfinished_tasks, wtext>>
             ELSE IF wtask.kind = "partial"
             THEN /\ sent' = Append(sent, Event("transcript.partial", o.text,
                                                wtask.segment_id, ""))
                  /\ wpc' = "send_partial"
                  /\ UNCHANGED <<unfinished_tasks, wtext>>
             ELSE /\ sent' = Append(sent, Event("transcript.final", o.text,
                                                wtask.segment_id, ""))
                  /\ wtext' = o.text
                  /\ wpc' = "send_final"
                  /\ UNCHANGED unfinished_tasks
    /\ UNCHANGED <<segVars, harnessVars, queue, sessionVars, tasks, conn_open, hpc, wtask,
                   engine_calls, appended, enqueued, persisted,
                   handler_raised, callVars>>

\* lines 55-62, 87-93 and 98-103: the send of transcript.partial, of
\* title.update or of the error event completed, or the connection closed
\* during the send, which raises ConnectionClosed
WorkerSent ==
    /\ wpc \in {"send_partial", "send_title", "send_error"}
    /\ LoopFree
    /\ WorkerTaskDone(~conn_open)
    /\ UNCHANGED <<segVars, harnessVars, queue, sessionVars, tasks, conn_open, hpc,
                   wtask, wtext, in_flight, call_thread, engine_calls, results, appended,
                   enqueued, sent, persisted, handler_raised, callVars>>

\* lines 64-93: the send of transcript.final completed: the entry is
\* appended, the title is updated and the send of title.update starts; or the
\* connection closed during the send, which raises ConnectionClosed
WorkerFinalSent ==
    /\ wpc = "send_final"
    /\ LoopFree
    /\ LET entry == TranscriptEntry(wtask.segment_id, wtext)
           new_title == TitleFromText(wtext)
       IN  IF ~conn_open
           THEN /\ WorkerTaskDone(TRUE)
                /\ UNCHANGED <<finalized_messages, appended, title, sent>>
           ELSE /\ finalized_messages' = Append(finalized_messages, entry)
                /\ appended' = Append(appended, entry)
                /\ IF new_title # << >>
                   THEN /\ title' = new_title
                        /\ sent' = Append(sent, Event("title.update", new_title, 0, ""))
                        /\ wpc' = "send_title"
                        /\ UNCHANGED unfinished_tasks
                   ELSE /\ WorkerTaskDone(FALSE)
                        /\ UNCHANGED <<title, sent>>
    /\ UNCHANGED <<segVars, harnessVars, queue, session_audio, session_started_at,
                   session_started, tasks, conn_open, hpc, wtask, wtext,
                   in_flight, call_thread, engine_calls, results, enqueued, persisted,
                   received,
                   fed, handler_raised, callVars>>

Next ==
    \/ RecvAudio
    \/ RecvSessionStart
    \/ RecvSessionStop
    \/ StopJoined
    \/ StopPersisted
    \/ StopPersistFailed
    \/ StopSaved
    \/ RecvClosed
    \/ FinallyJoined
    \/ FinallyPersisted
    \/ FinallyPersistFailed
    \/ FinallySaved
    \/ WorkerAwaited
    \/ Disconnect
    \/ WorkerGet
    \/ WorkerTranscribed
    \/ WorkerSent
    \/ WorkerFinalSent

Spec == Init /\ [][Next]_vars

\* the backlog scenario: one session whose audio is long enough for the
\* queue to fill up while the Worker lags behind
RecvAudioBacklog == RecvAudioUpTo(MaxBacklogFrames)

RecvSessionStartOnce == RecvSessionStartUpTo(1)

BacklogNext ==
    \/ RecvAudioBacklog
    \/ RecvSessionStartOnce
    \/ WorkerGet
    \/ WorkerTranscribed
    \/ WorkerSent
    \/ WorkerFinalSent

BacklogSpec == Init /\ [][BacklogNext]_vars

\* the long-speech scenario: one session with a single long utterance, which
\* yields a Partial every partial_interval_frames while the Worker lags behind
LongVadRuns == ({TRUE} \X {LongSpeechRun}) \cup ({FALSE} \X SilenceRuns)

RecvAudioLong == RecvAudioFrom(MaxLongFrames, LongVadRuns)

LongNext ==
    \/ RecvAudioLong
    \/ RecvSessionStartOnce
    \/ WorkerGet
    \/ WorkerTranscribed
    \/ WorkerSent
    \/ WorkerFinalSent

LongSpec == Init /\ [][LongNext]_vars

\* the protocol-error scenario: the messages the receive loop rejects, around
\* a short session
RecvAudioProtocol == RecvAudioUpTo(MaxProtocolFrames)

ProtocolNext ==
    \/ RecvAudioIdle
    \/ RecvBadFrame
    \/ RecvInvalidJson
    \/ RecvUnsupported
    \/ RecvNonObjectJson
    \/ RecvAudioProtocol
    \/ RecvSessionStartOnce
    \/ RecvSessionStop
    \/ StopJoined
    \/ StopPersisted
    \/ StopPersistFailed
    \/ StopSaved
    \/ RecvClosed
    \/ FinallyJoined
    \/ FinallyPersisted
    \/ FinallyPersistFailed
    \/ FinallySaved
    \/ WorkerAwaited
    \/ Disconnect
    \/ WorkerGet
    \/ WorkerTranscribed
    \/ WorkerSent
    \/ WorkerFinalSent

ProtocolSpec == Init /\ [][ProtocolNext]_vars

\* ---------------------------------------------------------------------------
\* streaming.py: a VADSegmenter driven on its own, call by call
\* ---------------------------------------------------------------------------
\* the runs the VAD may start: <<is_speech, frames>>
SegVadRuns == ({TRUE} \X SegSpeechRuns) \cup ({FALSE} \X SegSilenceRuns)

\* what ends the utterance when push_frame finalizes it on this frame
Cause(s, is_speech) ==
    IF ~is_speech /\ s.silence_run + 1 >= silence_hangover_frames
    THEN "hangover" ELSE "cap"

\* history records of the tasks one call returned: the task, the ordinal of
\* the last frame pushed, the ordinal of the utterance and what produced it
Produced(ts, at, utt, cause) ==
    [i \in DOMAIN ts |->
        [task |-> ts[i], at |-> at, utt |-> utt,
         cause |-> IF ts[i].kind = "final" THEN cause ELSE "interval"]]

\* the speech-then-silence pattern after one more frame: `seed` is the length
\* of the utterance buffer right after the onset, `speech` and `silence` count
\* the frames of the pattern, `tasks` holds the tasks returned during it with
\* the position in the pattern of the frame that produced them
ScenarioAfter(sc, s, r, is_speech) ==
    LET got == [i \in DOMAIN r.tasks |->
                   [task |-> r.tasks[i], at |-> sc.speech + sc.silence + 1]]
    IN  IF is_speech
        THEN IF sc.speech > 0 /\ sc.silence = 0
             THEN [sc EXCEPT !.speech = sc.speech + 1, !.tasks = sc.tasks \o got]
             ELSE IF ~s.in_speech
             THEN [seed |-> Len(r.seg.speech_frames), speech |-> 1,
                   silence |-> 0, tasks |-> << >>]
             ELSE NoScenario
        ELSE IF sc.speech > 0
             THEN [sc EXCEPT !.silence = sc.silence + 1, !.tasks = sc.tasks \o got]
             ELSE NoScenario

\* push_frame(frame) on a frame of FRAME_BYTES bytes, classified by the VAD
SegPush ==
    /\ vad_left > 0 \/ seg_steps < MaxSegSteps
    /\ \E run \in (IF vad_left = 0 THEN SegVadRuns ELSE {<<vad_speech, vad_left>>}) :
          LET frame == NextFrame
              r == PushFrame(segmenter, frame, FRAME_BYTES, run[1])
              onset == ~segmenter.in_speech /\ run[1]
          IN  /\ ~r.error
              /\ vad_speech' = run[1]
              /\ vad_left' = run[2] - 1
              /\ seg_steps' = IF vad_left = 0 THEN seg_steps + 1 ELSE seg_steps
              /\ segmenter' = r.seg
              /\ tasks' = r.tasks
              /\ received' = received + 1
              /\ fed' = Append(fed, frame)
              /\ utterances' = IF onset THEN utterances + 1 ELSE utterances
              /\ onset_at' = IF onset THEN Len(fed) + 1 ELSE onset_at
              /\ produced' = produced \o Produced(r.tasks, frame, utterances,
                                                  Cause(segmenter, run[1]))
              /\ scenario' = ScenarioAfter(scenario, segmenter, r, run[1])
              /\ op' = [call |-> "push_frame", before |-> segmenter,
                        is_speech |-> run[1]]
    /\ UNCHANGED <<queue, unfinished_tasks, finalized_messages, title,
                   session_audio, session_started_at, session_started,
                   conn_open, hpc, workerVars, enqueued, sent, persisted,
                   handler_raised, callVars>>

\* push_frame(frame) on a frame of a wrong size: ValueError is raised
SegPushBad ==
    /\ BetweenRuns
    /\ seg_steps < MaxSegSteps
    /\ seg_steps' = seg_steps + 1
    /\ \E size \in BadFrameSizes :
          LET r == PushFrame(segmenter, NextFrame, size, FALSE)
          IN  /\ r.error
              /\ segmenter' = r.seg
              /\ op' = [call |-> "push_frame raised", before |-> segmenter,
                        is_speech |-> FALSE]
    /\ UNCHANGED <<vad_speech, vad_left, queue, unfinished_tasks, sessionVars,
                   tasks, conn_open, hpc, workerVars, enqueued, sent, persisted,
                   produced, utterances, onset_at, scenario, handler_raised, callVars>>

\* flush()
SegFlush ==
    /\ BetweenRuns
    /\ seg_steps < MaxSegSteps
    /\ seg_steps' = seg_steps + 1
    /\ LET f == Flush(segmenter)
       IN  /\ segmenter' = f.seg
           /\ tasks' = f.tasks
           /\ produced' = produced \o Produced(f.tasks, received, utterances,
                                               "flush")
    /\ scenario' = NoScenario
    /\ op' = [call |-> "flush", before |-> segmenter, is_speech |-> FALSE]
    /\ UNCHANGED <<vad_speech, vad_left, queue, unfinished_tasks, sessionVars,
                   conn_open, hpc, workerVars, enqueued, sent, persisted,
                   utterances, onset_at, handler_raised, callVars>>

\* reset()
SegReset ==
    /\ BetweenRuns
    /\ seg_steps < MaxSegSteps
    /\ seg_steps' = seg_steps + 1
    /\ segmenter' = Reset(segmenter)
    /\ fed' = << >>
    /\ scenario' = NoScenario
    /\ op' = [call |-> "reset", before |-> segmenter, is_speech |-> FALSE]
    /\ UNCHANGED <<vad_speech, vad_left, queue, unfinished_tasks,
                   finalized_messages, title, session_audio, session_started_at,
                   session_started, received, tasks, conn_open, hpc, workerVars,
                   enqueued, sent, persisted, produced, utterances, onset_at,
                   handler_raised, callVars>>

SegNext ==
    \/ SegPush
    \/ SegPushBad
    \/ SegFlush
    \/ SegReset

SegSpec == Init /\ [][SegNext]_vars

\* ---------------------------------------------------------------------------
\* streaming.py: transcribe_pcm_bytes called on its own
\* ---------------------------------------------------------------------------
connVars == <<segVars, queue, unfinished_tasks, sessionVars, tasks, conn_open,
              hpc, workerVars, enqueued, sent, persisted, harnessVars,
              handler_raised>>

\* a call of transcribe_pcm_bytes about to start: the samples it is given and
\* the engine it will run on
TranscribeInit ==
    /\ ConnectionInit
    /\ cli = NoCliRun
    /\ \E pcm \in PcmInputs, raw \in RawResults, engine \in EngineKinds :
          tcall = [pc |-> "entry", pcm |-> pcm, raw |-> raw, engine |-> engine,
                   invocations |-> 0, rms |-> Zero, no_speech_prob |-> NoProb,
                   result |-> << >>]

\* lines 217-223: without samples, or under the energy floor, "" is returned
\* and the engine is left alone; rms is computed when there are samples
TranscribeEnergyGate ==
    /\ tcall.pc = "entry"
    /\ \E rms \in {IF Len(tcall.pcm) = 0 THEN Zero ELSE Rms(tcall.pcm)} :
          tcall' = IF SkipsEngine(tcall.pcm, rms)
                   THEN [tcall EXCEPT !.pc = "returned", !.rms = rms,
                                      !.result = << >>]
                   ELSE [tcall EXCEPT !.pc = "engine", !.rms = rms]
    /\ UNCHANGED <<connVars, cli>>

\* lines 226-237: mlx_whisper.transcribe with hallucination_silence_threshold
TranscribeEngine ==
    /\ tcall.pc = "engine"
    /\ tcall' = [tcall EXCEPT !.invocations = @ + 1,
                              !.pc = IF tcall.engine = "TypeError"
                                     THEN "fallback" ELSE "clean"]
    /\ UNCHANGED <<connVars, cli>>

\* lines 238-248: after a TypeError, mlx_whisper.transcribe without it
TranscribeEngineFallback ==
    /\ tcall.pc = "fallback"
    /\ tcall' = [tcall EXCEPT !.invocations = @ + 1, !.pc = "clean"]
    /\ UNCHANGED <<connVars, cli>>

\* lines 249-269: the decoded text goes through _clean_transcript_text
TranscribeClean ==
    /\ tcall.pc = "clean"
    /\ \E no_speech_prob \in {ExtractNoSpeechProb(tcall.raw)} :
          tcall' = [tcall EXCEPT
                       !.pc = "returned",
                       !.no_speech_prob = no_speech_prob,
                       !.result = CleanTranscriptText(DecodedText(tcall.raw),
                                                      tcall.rms, no_speech_prob)]
    /\ UNCHANGED <<connVars, cli>>

TranscribeNext ==
    \/ TranscribeEnergyGate
    \/ TranscribeEngine
    \/ TranscribeEngineFallback
    \/ TranscribeClean

TranscribeSpec == TranscribeInit /\ [][TranscribeNext]_vars

\* ---------------------------------------------------------------------------
\* cli.py, transcriber.py, validators.py, mapper.py: one run of the command
\* line
\* ---------------------------------------------------------------------------
EXIT_OK == 0
EXIT_ERROR == 1
EXIT_FILE_NOT_FOUND == 2
EXIT_FFMPEG_MISSING == 3
EXIT_INVALID_AUDIO == 4

DEFAULT_LANGUAGE == "es"

\* what mlx_whisper.transcribe may return: a result without a language and
\* without words, and one with both
RawOutputs ==
    { [language |-> "", segments |-> <<[id |-> 0, words |-> << >>]>>],
      [language |-> "en",
       segments |-> <<[id |-> 0,
                       words |-> <<[word |-> "hola", probability |-> 95]>>]>>] }

\* what one call of mlx_whisper.transcribe may do: return, or raise
EngineOutcomes ==
    [raises : {"none"}, raw : RawOutputs] \cup
    [raises : {"TypeError", "RuntimeError", "FileNotFoundError"},
     raw : {CHOOSE r \in RawOutputs : r.language = ""}]

\* a run about to start: the programs installed, the audio file, what each
\* call of the engine will do, the caller's word_timestamps (main passes the
\* default) and whether the output can be written
CliInit ==
    /\ ConnectionInit
    /\ tcall = NoTranscribeCall
    /\ \E ffmpeg \in {"installed", "failing", "missing"},
          ffprobe \in {"installed", "missing"},
          file \in {"audio", "missing", "empty", "no_audio_stream", "no_duration"},
          engine \in [1..MaxEngineCalls -> EngineOutcomes],
          word_timestamps \in BOOLEAN,
          output \in {"writable", "unwritable"} :
          cli = [NoCliRun EXCEPT !.pc = "check_ffmpeg", !.ffmpeg = ffmpeg,
                                 !.ffprobe = ffprobe, !.file = file,
                                 !.engine = engine,
                                 !.word_timestamps = word_timestamps,
                                 !.output = output]

\* validators.py 24-29 as it would be if nothing were checked
CheckFfmpegInstalled_Always(ffmpeg) == TRUE

\* check_ffmpeg_installed (validators.py 24-29): ffmpeg -version ran and
\* returned 0
CheckFfmpegInstalled(ffmpeg) == ffmpeg = "installed"

\* validate_audio_file (validators.py 32-85): the exception it raises, or
\* "none"; subprocess.run raises FileNotFoundError when ffprobe is missing
ValidateAudioFile(file, ffprobe) ==
    IF file = "missing" THEN "FileNotFoundError"
    ELSE IF file = "empty" THEN "InvalidAudioError"
    ELSE IF ffprobe = "missing" THEN "FileNotFoundError"
    ELSE IF file = "no_audio_stream" THEN "InvalidAudioError"
    ELSE IF file = "no_duration" THEN "ValueError"
    ELSE "none"

\* what stopped validate_audio_file
ValidationFailure(file, ffprobe) ==
    IF file \in {"missing", "empty"} THEN file
    ELSE IF ffprobe = "missing" THEN "ffprobe_missing"
    ELSE file

\* transcriber.py 73 as it would be if the fallback were tried again
AfterTypeError_RetriesAgain(attempt) == "fallback"

\* transcriber.py 65-79: only the first call is inside the try statement
AfterTypeError(attempt) == IF attempt = 1 THEN "fallback" ELSE "raised"

\* map_transcription (mapper.py 11-69): language defaults to "es", each
\* word's probability becomes its confidence
MapTranscription(raw) ==
    [language |-> IF raw.language = "" THEN DEFAULT_LANGUAGE ELSE raw.language,
     segments |->
        [i \in DOMAIN raw.segments |->
            [id |-> raw.segments[i].id,
             words |-> [j \in DOMAIN raw.segments[i].words |->
                          [word |-> raw.segments[i].words[j].word,
                           confidence |-> raw.segments[i].words[j].probability]]]]]

\* cli.py 47-63: the exit code for an exception raised by transcribe
ExitCodeFor(exception) ==
    IF exception = "FileNotFoundError" THEN EXIT_FILE_NOT_FOUND
    ELSE IF exception = "FFmpegNotFoundError" THEN EXIT_FFMPEG_MISSING
    ELSE IF exception = "InvalidAudioError" THEN EXIT_INVALID_AUDIO
    ELSE EXIT_ERROR

\* transcriber.py 52-56
CliCheckFfmpeg ==
    /\ cli.pc = "check_ffmpeg"
    /\ cli' = IF CheckFfmpegInstalled(cli.ffmpeg)
              THEN [cli EXCEPT !.pc = "validate"]
              ELSE [cli EXCEPT !.pc = "raised", !.raised = "FFmpegNotFoundError",
                               !.failure = "ffmpeg_missing"]
    /\ UNCHANGED <<connVars, tcall>>

\* transcriber.py 59
CliValidate ==
    /\ cli.pc = "validate"
    /\ LET exception == ValidateAudioFile(cli.file, cli.ffprobe)
       IN  cli' = IF exception = "none"
                  THEN [cli EXCEPT !.pc = "engine", !.validated = @ + 1]
                  ELSE [cli EXCEPT !.pc = "raised", !.validated = @ + 1,
                                   !.raised = exception,
                                   !.failure = ValidationFailure(cli.file,
                                                                 cli.ffprobe)]
    /\ UNCHANGED <<connVars, tcall>>

\* the outcome of a call of the engine: its result is kept, a TypeError of
\* the first call leads to the fallback, any other exception leaves transcribe
EngineCalled(run, kwargs) ==
    LET attempt == Len(run.calls) + 1
        outcome == run.engine[attempt]
        called == [run EXCEPT !.calls = Append(@, kwargs)]
    IN  IF outcome.raises = "none"
        THEN [called EXCEPT !.pc = "map", !.result = outcome.raw]
        ELSE IF outcome.raises = "TypeError" /\ AfterTypeError(attempt) = "fallback"
        THEN [called EXCEPT !.pc = "fallback"]
        ELSE [called EXCEPT !.pc = "raised", !.raised = outcome.raises,
                            !.failure = "engine"]

\* transcriber.py 65-72: the call with word_timestamps
CliEngine ==
    /\ cli.pc = "engine"
    /\ cli' = EngineCalled(cli, IF cli.word_timestamps THEN "word_timestamps=True"
                                ELSE "word_timestamps=False")
    /\ UNCHANGED <<connVars, tcall>>

\* transcriber.py 73-79: the call without word_timestamps
CliEngineFallback ==
    /\ cli.pc = "fallback"
    /\ Len(cli.calls) < MaxEngineCalls
    /\ cli' = EngineCalled(cli, "no word_timestamps")
    /\ UNCHANGED <<connVars, tcall>>

\* transcriber.py 85-91
CliMap ==
    /\ cli.pc = "map"
    /\ cli' = [cli EXCEPT !.pc = "returned", !.result = MapTranscription(@)]
    /\ UNCHANGED <<connVars, tcall>>

\* cli.py 47-63: transcribe raised, main exits with the code of the exception
CliHandle ==
    /\ cli.pc = "raised"
    /\ cli' = [cli EXCEPT !.pc = "exited", !.exit_code = ExitCodeFor(cli.raised)]
    /\ UNCHANGED <<connVars, tcall>>

\* cli.py 65-77: the result is written; main returns, or the exception of
\* the write ends the interpreter with status 1
CliOutput ==
    /\ cli.pc = "returned"
    /\ cli' = IF cli.output = "writable"
              THEN [cli EXCEPT !.pc = "exited", !.exit_code = EXIT_OK]
              ELSE [cli EXCEPT !.pc = "exited", !.exit_code = EXIT_ERROR,
                               !.failure = "output"]
    /\ UNCHANGED <<connVars, tcall>>

CliNext ==
    \/ CliCheckFfmpeg
    \/ CliValidate
    \/ CliEngine
    \/ CliEngineFallback
    \/ CliMap
    \/ CliHandle
    \/ CliOutput

CliSpec == CliInit /\ [][CliNext]_vars

TypeOK ==
    /\ hpc \in {"recv", "stop_join", "stop_persist", "stop_send", "fin_join",
                "fin_persist", "fin_send", "await_worker", "done"}
    /\ wpc \in {"get", "transcribe", "send_partial", "send_error", "send_final",
                "send_title", "done"}
    /\ unfinished_tasks >= 0
    /\ in_flight >= 0
    /\ call_thread \in {"none", "executor"}


\* ---------------------------------------------------------------------------
\* Helpers of the properties
\* ---------------------------------------------------------------------------
IsFinal(t) == t.kind = "final"

IsPartial(t) == t.kind = "partial"

FinalsOf(ts) == SelectSeq(ts, IsFinal)

\* the tasks put so far, in order
EnqTasks == [i \in DOMAIN enqueued |-> enqueued[i].task]

\* a is b with some elements left out
RECURSIVE IsSubSeq(_, _)
IsSubSeq(a, b) ==
    IF a = << >> THEN TRUE
    ELSE IF b = << >> THEN FALSE
    ELSE IF Head(a) = Head(b) THEN IsSubSeq(Tail(a), Tail(b))
    ELSE IsSubSeq(a, Tail(b))

\* the outcomes whose processing by the Worker is over
CompletedResults ==
    IF wpc = "send_final" THEN SubSeq(results, 1, Len(results) - 1) ELSE results

\* a Final whose filtered text is non-empty
Accepted(r) == r.task.kind = "final" /\ ~r.raised /\ r.text # << >>

EntriesOf(rs) ==
    LET acc == SelectSeq(rs, Accepted)
    IN  [i \in DOMAIN acc |-> TranscriptEntry(acc[i].task.segment_id, acc[i].text)]

\* C1: every enqueued Final is eventually dequeued by the Worker and passed to
\* the transcription engine exactly once; no enqueued Final stays in the queue
\* forever. A Final still queued when the Worker has left its loop stays there
\* forever, so the claim requires that this never happens.
C1_FinalsNeverStranded ==
    /\ wpc = "done" => \A i \in DOMAIN queue : ~IsFinal(queue[i])
    /\ \A i, j \in DOMAIN engine_calls :
          (i < j /\ IsFinal(engine_calls[i]) /\ IsFinal(engine_calls[j]))
             => engine_calls[i].segment_id # engine_calls[j].segment_id

\* C2: in every execution, also when the connection closes while tasks are
\* queued or in flight, the transcript gains exactly one entry, carrying the
\* task's segment_id, for each Final whose filtered text is non-empty, and no
\* entry for a Partial or for a Final whose filtered text is empty.
C2_OneEntryPerAcceptedFinal == appended = EntriesOf(CompletedResults)

\* C3: after a disconnect while ACTIVE the handler flushes, waits for the
\* queue to drain, persists and terminates. The drain can only complete while
\* the Worker is alive, so the claim requires that the handler never waits for
\* the drain of a queue whose Worker has left with work outstanding.
C3_DrainCompletes ==
    (hpc \in {"stop_join", "fin_join"} /\ wpc = "done") => unfinished_tasks = 0

\* the Finals produced in session k, in order
SessionFinals(k) ==
    LET IsOfSession(e) == e.session = k /\ IsFinal(e.task)
        es == SelectSeq(enqueued, IsOfSession)
    IN  [i \in DOMAIN es |-> es[i].task]

\* the entries the Finals of session k must give: one per Final whose filtered
\* text is non-empty, in the order of the Finals
SessionEntries(k) ==
    LET ids == {f.segment_id : f \in {SessionFinals(k)[i] : i \in DOMAIN SessionFinals(k)}}
        IsOfSession(r) == Accepted(r) /\ r.task.segment_id \in ids
    IN  EntriesOf(SelectSeq(results, IsOfSession))

\* the entries of a transcript that come from Finals of session k
EntriesFrom(transcript, k) ==
    LET ids == {f.segment_id : f \in {SessionFinals(k)[i] : i \in DOMAIN SessionFinals(k)}}
        IsOfSession(e) == e.segment_id \in ids
    IN  SelectSeq(transcript, IsOfSession)

\* C4: on session.stop, persist_session is invoked only after the flush and
\* the complete drain (queue empty, nothing in flight); the transcript handed
\* off holds, in order, exactly one entry for every Final of that session with
\* a non-empty filtered text; and the session is IDLE once session.saved is
\* sent and the handler is back at its receive loop.
C4_StopPersistsDrainedSession ==
    /\ hpc = "stop_persist" =>
          /\ queue = << >>
          /\ in_flight = 0
          /\ wpc \in {"get", "done"}
          /\ ~segmenter.in_speech
    /\ \A i \in DOMAIN persisted :
          persisted[i].path = "stop" =>
             EntriesFrom(persisted[i].finalized_messages, persisted[i].started_at)
                = SessionEntries(persisted[i].started_at)
    /\ (sent # << >> /\ Last(sent).type = "session.saved" /\ hpc = "recv")
          => ~session_started

\* C5: at every instant at most one transcribe_pcm_bytes call is in flight on
\* the connection, whatever the interleaving of receive loop and Worker.
C5_SingleFlight == in_flight <= 1

\* C5 witness: a call is in flight while the receive loop has queued more work
C5_Witness == in_flight = 1 /\ queue # << >> /\ hpc = "recv"

\* C6: the tasks passed to the engine are, in order, a subsequence of the
\* tasks enqueued; no Final is skipped or reordered: every enqueued Final has
\* been passed to the engine or is still waiting in the queue, in the order of
\* production.
C6_FifoFinalsKept ==
    /\ IsSubSeq(engine_calls, EnqTasks)
    /\ FinalsOf(EnqTasks) = FinalsOf(engine_calls) \o FinalsOf(queue)

\* C6 witness: a Partial and the Final enqueued behind it were both passed to
\* the engine, in that order
C6_Witness ==
    /\ Len(engine_calls) >= 2
    /\ IsPartial(engine_calls[1])
    /\ IsFinal(engine_calls[2])

\* C7: within every session, also a second or later one on the same
\* connection, the segment_ids of the Finals produced are strictly increasing
\* and the first one is 0.
C7_NumberingRestartsPerSession ==
    \A k \in 1..MaxSessions + 1 :
       LET fs == SessionFinals(k)
       IN  /\ fs # << >> => fs[1].segment_id = 0
           /\ \A i, j \in DOMAIN fs : i < j => fs[i].segment_id < fs[j].segment_id

\* the step is the receive loop taking an audio frame through push_frame
AudioStep == received' = received + 1

\* C8: of the tasks of one push_frame, a Partial is enqueued if and only if
\* the call produced no Final and the queue holds fewer than
\* MAX_PARTIAL_BACKLOG items; a Final is always enqueued.
C8_Admission ==
    [][AudioStep =>
         LET finals == SelectSeq(tasks', IsFinal)
             partials == SelectSeq(tasks', IsPartial)
             kept == IF finals = << >> /\ Len(queue) < MAX_PARTIAL_BACKLOG
                     THEN partials ELSE << >>
         IN  queue' = (queue \o kept) \o finals]_vars

\* C8 witness: a Partial produced alone was dropped because the queue held
\* MAX_PARTIAL_BACKLOG items
C8_Witness ==
    /\ Len(tasks) = 1
    /\ IsPartial(tasks[1])
    /\ Len(queue) >= MAX_PARTIAL_BACKLOG
    /\ \A i \in DOMAIN enqueued : enqueued[i].task # tasks[1]

\* C9: when one push_frame call returns both a Partial and a Final, the queue
\* gains the Final and nothing else.
C9_FinalSupersedesPartial ==
    [][(AudioStep /\ Len(tasks') = 2) =>
         /\ IsPartial(tasks'[1])
         /\ IsFinal(tasks'[2])
         /\ queue' = Append(queue, tasks'[2])
         /\ Len(enqueued') = Len(enqueued) + 1]_vars

\* C9 witness: push_frame returned a Partial and a Final, the Final was put
C9_Witness ==
    /\ Len(tasks) = 2
    /\ enqueued # << >>
    /\ Last(enqueued).task = tasks[2]

\* the step is the Worker taking a task (not the sentinel) out of the queue
DequeueStep == wpc = "get" /\ queue # << >> /\ queue' = Tail(queue) /\ Head(queue) # NoTask

\* C10: a dequeued Partial is passed to the engine if and only if the queue is
\* empty once it is taken out; otherwise it is dropped with no engine call and
\* no event. A dequeued Final is always passed to the engine.
C10_StalenessSkip ==
    [][DequeueStep =>
         IF IsFinal(Head(queue)) \/ Len(queue') = 0
         THEN /\ engine_calls' = Append(engine_calls, Head(queue))
              /\ in_flight' = in_flight + 1
         ELSE /\ engine_calls' = engine_calls
              /\ in_flight' = in_flight
              /\ sent' = sent
              /\ wpc' = "get"]_vars

\* the tasks the Worker has taken out of the queue
Dequeued == Len(enqueued) - Len(SelectSeq(queue, IsPartial)) - Len(FinalsOf(queue))

\* C10 witness: a Partial was taken out and dropped, a Final behind it was
\* passed to the engine
C10_Witness ==
    /\ Dequeued > Len(engine_calls)
    /\ engine_calls # << >>
    /\ IsFinal(Last(engine_calls))

\* ---------------------------------------------------------------------------
\* The segmenter (streaming.py)
\* ---------------------------------------------------------------------------
\* the last call on the segmenter was a push_frame that raised ValueError
PushRaised == op.call = "push_frame raised"

\* C11: for every frame whose length differs from FRAME_BYTES, push_frame
\* raises and leaves in_speech, the utterance buffer, the silence-run counter,
\* the pre-roll buffer and the segment-id counter as they were; the next frame
\* of FRAME_BYTES bytes is processed exactly as if the bad frame had never
\* been pushed, whatever the VAD says of it.
C11_BadFrameRejected ==
    /\ \A size \in BadFrameSizes :
          PushFrame(segmenter, NextFrame, size, FALSE).error
    /\ PushRaised =>
          /\ segmenter.in_speech = op.before.in_speech
          /\ segmenter.speech_frames = op.before.speech_frames
          /\ segmenter.silence_run = op.before.silence_run
          /\ segmenter.pre_roll = op.before.pre_roll
          /\ segmenter.segment_id = op.before.segment_id
          /\ \A is_speech \in BOOLEAN :
                PushFrame(segmenter, NextFrame, FRAME_BYTES, is_speech)
                    = PushFrame(op.before, NextFrame, FRAME_BYTES, is_speech)

\* C11 witness: a bad frame was pushed in the middle of an utterance, during
\* a pause, with a full pre-roll buffer
C11_Witness ==
    /\ PushRaised
    /\ segmenter.in_speech
    /\ segmenter.silence_run > 0
    /\ Len(segmenter.pre_roll) = pre_roll_frames

\* the tasks of a kind returned while the pattern was pushed
ScenarioTasks(kind) ==
    {i \in DOMAIN scenario.tasks : scenario.tasks[i].task.kind = kind}

\* fewer than min_utterance_frames speech frames, pushed from SILENCE, were
\* followed by exactly silence_hangover_frames silence frames
ShortSpeechThenHangover ==
    /\ scenario.speech \in 1..(min_utterance_frames - 1)
    /\ scenario.silence = silence_hangover_frames

\* C12: starting from a segmenter in SILENCE, with any pre-roll contents,
\* fewer than min_utterance_frames speech frames followed by
\* silence_hangover_frames silence frames produce no task at all, neither
\* Partial nor Final, and leave the segmenter in SILENCE with an empty
\* utterance buffer.
C12_ShortSpeechProducesNothing ==
    ShortSpeechThenHangover =>
        /\ scenario.tasks = << >>
        /\ ~segmenter.in_speech
        /\ segmenter.speech_frames = << >>

\* the last call on the segmenter was flush()
Flushed == op.call = "flush"

\* C13: flush() in SPEECH returns a Final task carrying all frames accumulated
\* for the utterance whenever the utterance buffer is not empty, also when it
\* holds fewer than min_utterance_frames frames, and leaves the segmenter in
\* SILENCE; flush() in SILENCE returns nothing and changes no state.
C13_FlushForcesFinal ==
    Flushed =>
        IF op.before.in_speech
        THEN /\ ~segmenter.in_speech
             /\ op.before.speech_frames # << >> =>
                   tasks = <<SegmentTask("final", op.before.segment_id,
                                         op.before.speech_frames)>>
        ELSE /\ tasks = << >>
             /\ segmenter = op.before

\* max_utterance_frames speech frames and no silence frame were pushed in a
\* row, the first of them to a segmenter in SILENCE
CapScenario ==
    /\ scenario.speech = max_utterance_frames
    /\ scenario.silence = 0

\* the Final returned last carries a segment_id no earlier Final carried
LastFinalIsFresh ==
    \A j \in DOMAIN produced :
        (/\ IsFinal(produced[j].task)
         /\ \A k \in DOMAIN produced : k > j => ~IsFinal(produced[k].task))
        => \A i \in 1..(j - 1) :
              IsFinal(produced[i].task)
              => produced[i].task.segment_id # produced[j].task.segment_id

\* C14 as claimed: max_utterance_frames consecutive speech frames pushed to a
\* segmenter in SILENCE produce exactly one Final, on the last of these frames,
\* with a segment_id no earlier Final carried; the segmenter is then in
\* SILENCE and the next speech frame opens a new utterance.
C14_CapFinalOnLastFrame ==
    CapScenario =>
        /\ Cardinality(ScenarioTasks("final")) = 1
        /\ \A i \in ScenarioTasks("final") :
              scenario.tasks[i].at = max_utterance_frames
        /\ LastFinalIsFresh
        /\ ~segmenter.in_speech
        /\ PushFrame(segmenter, NextFrame, FRAME_BYTES, TRUE).seg.in_speech

\* the frame of the pattern on which the utterance buffer, which starts with
\* the scenario.seed frames of the pre-roll, reaches max_utterance_frames
CapFrame == max_utterance_frames + 1 - scenario.seed

\* C14 as amended: the Final is returned on the frame on which the utterance
\* buffer reaches max_utterance_frames frames, the pre-roll at the onset
\* included: the last of the max_utterance_frames frames when the pre-roll was
\* empty, up to pre_roll_frames - 1 frames earlier otherwise. It is the only
\* Final of these frames, carries max_utterance_frames frames and a
\* segment_id no earlier Final carried; on that frame the segmenter is in
\* SILENCE and the next speech frame opens a new utterance.
C14_CapFinalWhenBufferFull ==
    /\ CapScenario =>
          /\ Cardinality(ScenarioTasks("final")) = 1
          /\ \A i \in ScenarioTasks("final") :
                /\ scenario.tasks[i].at = CapFrame
                /\ Len(scenario.tasks[i].task.pcm_bytes) = max_utterance_frames
          /\ LastFinalIsFresh
    /\ (scenario.silence = 0 /\ scenario.speech > 0 /\ scenario.speech = CapFrame) =>
          /\ tasks # << >>
          /\ IsFinal(Last(tasks))
          /\ LastFinalIsFresh
          /\ ~segmenter.in_speech
          /\ PushFrame(segmenter, NextFrame, FRAME_BYTES, TRUE).seg.in_speech

\* C14 witness: the pre-roll held frames at the onset, so that the Final came
\* before the last of the max_utterance_frames speech frames, and an earlier
\* utterance had produced a Final
C14_Witness ==
    /\ CapScenario
    /\ scenario.seed > 1
    /\ Cardinality({i \in DOMAIN produced : IsFinal(produced[i].task)}) = 2

\* the frames of the utterance opened last, read from the history of the
\* frames pushed: the frames the pre-roll held at the onset (the onset frame
\* and up to pre_roll_frames - 1 frames before it) and every frame since
UtteranceFrames ==
    SubSeq(fed, onset_at - Min(onset_at, pre_roll_frames) + 1, Len(fed))

\* the last n elements of a sequence that has at least n
Trailing(u, n) == SubSeq(u, Len(u) - n + 1, Len(u))

\* the last call on the segmenter was a push_frame that returned
Pushed == op.call = "push_frame"

\* C15: push_frame returns a Partial only when the utterance holds at least
\* min_utterance_frames frames; two Partials of one utterance are at least
\* partial_interval_frames frames apart; every Partial carries exactly the
\* trailing min(utterance length, partial_window_frames) frames of the
\* utterance.
C15_PartialCadenceAndWindow ==
    /\ Pushed =>
          \A i \in DOMAIN tasks :
              IsPartial(tasks[i]) =>
                  /\ Len(UtteranceFrames) >= min_utterance_frames
                  /\ tasks[i].pcm_bytes
                       = Trailing(UtteranceFrames,
                                  Min(Len(UtteranceFrames), partial_window_frames))
    /\ \A i, j \in DOMAIN produced :
          (/\ i < j
           /\ IsPartial(produced[i].task)
           /\ IsPartial(produced[j].task)
           /\ produced[i].utt = produced[j].utt)
          => produced[j].at - produced[i].at >= partial_interval_frames

\* C15 witness: push_frame just returned a Partial of an utterance longer
\* than partial_window_frames that had produced a Partial before
C15_Witness ==
    /\ Pushed
    /\ \E i \in DOMAIN tasks : IsPartial(tasks[i])
    /\ Len(UtteranceFrames) > partial_window_frames
    /\ \E i \in DOMAIN produced :
          /\ IsPartial(produced[i].task)
          /\ produced[i].utt = utterances
          /\ produced[i].at < received

\* the pre-roll buffer right after the onset frame of the last utterance was
\* added to it: the last pre_roll_frames frames pushed, or all of them
PreRollAtOnset ==
    SubSeq(fed, onset_at - Min(onset_at, pre_roll_frames) + 1, onset_at)

\* the frames pushed after the onset frame of the last utterance
FramesSinceOnset == SubSeq(fed, onset_at + 1, Len(fed))

\* the last push_frame returned a Final because of the hangover
HangoverFinal ==
    /\ Pushed
    /\ tasks # << >>
    /\ IsFinal(Last(tasks))
    /\ Last(produced).cause = "hangover"

\* C16: every Final produced by hangover carries, in order and each exactly
\* once, the pre-roll buffer contents at the moment speech was detected (at
\* most pre_roll_frames frames, oldest first, the onset frame last), followed
\* by every frame received afterwards up to and including the frame that
\* triggered the finalization.
C16_HangoverFinalContent ==
    HangoverFinal =>
        /\ Last(tasks).pcm_bytes = PreRollAtOnset \o FramesSinceOnset
        /\ Len(PreRollAtOnset) <= pre_roll_frames
        /\ Last(PreRollAtOnset) = fed[onset_at]
        /\ Last(Last(tasks).pcm_bytes) = received
        /\ \A i, j \in DOMAIN Last(tasks).pcm_bytes :
              i < j => Last(tasks).pcm_bytes[i] < Last(tasks).pcm_bytes[j]

\* C16 witness: a Final by hangover whose utterance began when the pre-roll
\* buffer had already evicted frames
C16_Witness ==
    /\ HangoverFinal
    /\ onset_at > pre_roll_frames
    /\ Len(FramesSinceOnset) > silence_hangover_frames

\* the call made last returned a Final
ReturnedFinal ==
    /\ op.call \in {"push_frame", "flush"}
    /\ \E i \in DOMAIN tasks : IsFinal(tasks[i])

\* the tasks of one utterance carry one segment_id
OneIdPerUtterance ==
    \A i, j \in DOMAIN produced :
        produced[i].utt = produced[j].utt
        => produced[i].task.segment_id = produced[j].task.segment_id

\* the counter moves only when a Final is returned, by one
CounterCountsFinals ==
    segmenter.segment_id
        = op.before.segment_id + (IF ReturnedFinal THEN 1 ELSE 0)

\* C17 as claimed: the Partials of one utterance carry the segment_id of its
\* Final; no two different utterances that both returned tasks share a
\* segment_id; the counter changes only when a Final is produced, by one.
C17_OneUtterancePerId ==
    /\ OneIdPerUtterance
    /\ \A i, j \in DOMAIN produced :
          produced[i].utt # produced[j].utt
          => produced[i].task.segment_id # produced[j].task.segment_id
    /\ CounterCountsFinals

\* C17 as amended: the Partials of one utterance carry the segment_id of its
\* Final; no two Finals share a segment_id, and a later utterance carries the
\* segment_id of an earlier one only when the earlier one returned Partials
\* and was discarded by reset() before any Final; the counter changes only
\* when a Final is produced, by one.
C17_OneFinalPerId ==
    /\ OneIdPerUtterance
    /\ \A i, j \in DOMAIN produced :
          (/\ i < j
           /\ produced[i].utt # produced[j].utt
           /\ produced[i].task.segment_id = produced[j].task.segment_id)
          => \A k \in DOMAIN produced :
                produced[k].utt = produced[i].utt => IsPartial(produced[k].task)
    /\ CounterCountsFinals

\* C17 witness: an utterance returned Partials and was discarded by reset();
\* the next utterance returned a Final with the same segment_id
C17_Witness ==
    \E i, j \in DOMAIN produced :
        /\ i < j
        /\ produced[i].utt # produced[j].utt
        /\ produced[i].task.segment_id = produced[j].task.segment_id
        /\ IsFinal(produced[j].task)
        /\ ReturnedFinal

\* ---------------------------------------------------------------------------
\* The session (server.py)
\* ---------------------------------------------------------------------------
\* a step of the receive loop that handles session.start
StartStep == session_started_at' = session_started_at + 1

\* C18: on session.start the Segmenter is reset to SILENCE with an empty
\* pre-roll and an empty utterance buffer, the transcript log, the title and
\* the accumulated audio are cleared, the session becomes ACTIVE and
\* session.ready is sent: right after session.start the session holds no
\* audio, no transcript entry and an empty title.
C18_SessionStartClears ==
    [][StartStep =>
         /\ ~segmenter'.in_speech
         /\ segmenter'.pre_roll = << >>
         /\ segmenter'.speech_frames = << >>
         /\ finalized_messages' = << >>
         /\ title' = << >>
         /\ session_audio' = << >>
         /\ session_started'
         /\ sent' = Append(sent, Event("session.ready", << >>, 0, ""))]_vars

\* C18 witness: a second session.start was just acknowledged on a connection
\* whose first session had received audio and logged a transcript entry
C18_Witness ==
    /\ sent # << >>
    /\ Last(sent).type = "session.ready"
    /\ session_started_at = 2
    /\ session_started
    /\ received > 0
    /\ appended # << >>
    /\ finalized_messages = << >>
    /\ session_audio = << >>

\* a step of the receive loop that answers an audio frame received while the
\* session is IDLE
IdleAudioStep ==
    /\ ~session_started
    /\ Len(sent') = Len(sent) + 1
    /\ Last(sent') = ErrorEvent("Audio received before session.start")

\* C19: an audio frame received while the session is IDLE is answered with an
\* error event and mutates nothing: the Segmenter, the accumulated audio, the
\* dispatch queue, the transcript and the session state stay as they were.
C19_IdleAudioRejected ==
    [][/\ ~session_started => received' = received
       /\ IdleAudioStep =>
             /\ sent' = Append(sent, ErrorEvent("Audio received before session.start"))
             /\ UNCHANGED <<segmenter, session_audio, queue, unfinished_tasks,
                            finalized_messages, title, session_started,
                            session_started_at, received, fed>>]_vars

\* C19 witness: an audio frame was rejected after a session was stopped and
\* saved, while the Segmenter and the accumulated audio still held its frames
C19_Witness ==
    /\ sent # << >>
    /\ Last(sent) = ErrorEvent("Audio received before session.start")
    /\ ~session_started
    /\ session_started_at > 0
    /\ session_audio # << >>
    /\ segmenter.pre_roll # << >>

\* C20: while the session is ACTIVE the accumulated audio is the in-order
\* concatenation of all the frames fed to the Segmenter since the last
\* session.start, whether or not they produced a task.
C20_AudioIsEveryFrameFed ==
    session_started => session_audio = fed

\* C20 witness: in a second session, the frame accepted last made push_frame
\* return tasks, after frames that returned none
C20_Witness ==
    /\ session_started
    /\ session_started_at = 2
    /\ tasks # << >>
    /\ Len(session_audio) >= min_utterance_frames
    /\ session_audio[1] > 1
    /\ Last(session_audio) = received

\* the messages of the error events that answer a protocol error
ProtocolErrorMessages ==
    {"Audio received before session.start", "Invalid frame size",
     "Invalid JSON control message", "Unsupported control message type"}

\* a step of the receive loop on a message that is a protocol error: it is
\* answered with an error event, or an exception leaves the loop
ProtocolErrorStep ==
    \/ handler_raised' # handler_raised
    \/ /\ Len(sent') = Len(sent) + 1
       /\ \E m \in ProtocolErrorMessages : Last(sent') = ErrorEvent(m)

\* C21: every protocol error (a control message that is not a well-formed
\* JSON control envelope, a frame of the wrong size, audio before
\* session.start, an unknown control type) is non-fatal: an error event is
\* sent, the receive loop keeps serving the connection, and the session
\* state, the Segmenter, the queue and the transcript are unchanged.
C21_ProtocolErrorsNonFatal ==
    [][ProtocolErrorStep =>
         /\ handler_raised' = "none"
         /\ hpc' = "recv"
         /\ sent' = Append(sent, Last(sent'))
         /\ Last(sent').type = "error"
         /\ UNCHANGED <<session_started, session_started_at, segmenter, queue,
                        unfinished_tasks, finalized_messages, title,
                        session_audio>>]_vars

\* ---------------------------------------------------------------------------
\* The Worker (server.py)
\* ---------------------------------------------------------------------------
\* a step of the Worker in which transcribe_pcm_bytes raised
EngineFailedStep ==
    /\ Len(results') = Len(results) + 1
    /\ Last(results').raised

\* a step of the Worker that ends the send of the error event
ErrorSendEndedStep == wpc = "send_error" /\ wpc' # "send_error"

\* C22: when the engine fails on a task, an error event is reported, the
\* task is marked done and the Worker goes back to the queue, which still
\* holds every task queued behind the failed one, in order; the failure does
\* not stop the Worker or change the session state.
C22_EngineFailureNonFatal ==
    [][/\ EngineFailedStep =>
             /\ sent' = Append(sent, ErrorEvent("transcription"))
             /\ wpc' = "send_error"
             /\ UNCHANGED <<queue, unfinished_tasks, session_started,
                            session_started_at, finalized_messages, title,
                            session_audio, segmenter>>
       /\ ErrorSendEndedStep =>
             /\ unfinished_tasks' = unfinished_tasks - 1
             /\ wpc' = "get"
             /\ UNCHANGED <<queue, sent, session_started, session_started_at,
                            finalized_messages, title, session_audio,
                            segmenter>>]_vars

\* the session in which a task was enqueued (0 if it never was)
SessionOf(task) ==
    IF \E i \in DOMAIN enqueued : enqueued[i].task = task
    THEN enqueued[CHOOSE i \in DOMAIN enqueued : enqueued[i].task = task].session
    ELSE 0

\* the Finals of the current session the Worker has processed and whose
\* filtered text was not empty, in the order of processing
AcceptedOfCurrentSession ==
    LET IsCurrent(r) == Accepted(r) /\ SessionOf(r.task) = session_started_at
    IN  SelectSeq(CompletedResults, IsCurrent)

\* the title the last of them gives, empty if there is none
LastFinalTitle ==
    IF AcceptedOfCurrentSession = << >> THEN << >>
    ELSE TitleFromText(Last(AcceptedOfCurrentSession).text)

\* the events of a type sent so far
SentOfType(type) == {i \in DOMAIN sent : sent[i].type = type}

\* C23: last final wins: whenever the Worker is not in the middle of a Final,
\* and in particular when the session is handed to persist_session, the
\* title is the one derived from the Final of the current session processed
\* last with a non-empty filtered text, empty if there is none; and a
\* title.update event follows the transcript.final event of every such Final.
C23_LastFinalWins ==
    /\ wpc # "send_final" => title = LastFinalTitle
    /\ \A i \in DOMAIN persisted :
          persisted[i].started_at = session_started_at /\ hpc \in {"stop_persist", "fin_persist"}
          /\ i = Len(persisted)
          => persisted[i].title = LastFinalTitle
    /\ wpc # "send_final" =>
          \A i \in SentOfType("transcript.final") :
              \E j \in SentOfType("title.update") :
                  j > i /\ sent[j].text = TitleFromText(sent[i].text)

\* C24: a transcription call in flight never blocks frame ingestion: in
\* every state in which the Worker awaits the engine and the receive loop of
\* an ACTIVE session on an open connection waits for a message, the step that
\* accepts an audio frame, passes it to the Segmenter, appends it to the audio
\* and puts its tasks can be taken at once: the thread of the event loop is
\* not the one that runs the call, and no put has to wait for the Worker.
C24_IngestionNotBlocked ==
    (/\ in_flight > 0
     /\ hpc = "recv"
     /\ conn_open
     /\ session_started
     /\ received < MaxBacklogFrames)
    => ENABLED RecvAudioBacklog

\* C24 witness: the Worker took a partial task, which it does only from an
\* otherwise empty queue, and during that one call of the engine, which runs
\* on a thread of the executor, the receive loop accepted frames and enqueued
\* two tasks or more, the last of them by the frame received last
C24_Witness ==
    /\ in_flight > 0
    /\ call_thread = "executor"
    /\ wpc = "transcribe"
    /\ wtask.kind = "partial"
    /\ Len(queue) >= 2
    /\ tasks # << >>
    /\ Last(queue) = Last(tasks)
    /\ Last(session_audio) = received

\* ---------------------------------------------------------------------------
\* The transcription step (claims C25 to C27)
\* ---------------------------------------------------------------------------
\* the call returned after the engine was invoked: there were samples and
\* their RMS was at or above the transcription floor
ReturnedFromEngine == tcall.pc = "returned" /\ tcall.invocations > 0

\* the averaged no-speech probability is present and exceeds the threshold
ProbExceeds(prob, threshold) ==
    prob # NoProb /\ FloatLess(Hundredths(threshold), prob[1])

\* C25, as stated: after the engine ran on audio at or above the floor, for a
\* decoded text that is not empty once trimmed and a no-speech probability
\* absent or not above 0.78, the result is empty when the normalized text is
\* a known hallucination and (RMS < 230 or the probability exceeds 0.45), and
\* is the trimmed text itself in every other case.
C25_KnownPhraseRuleAsStated ==
    LET text == DecodedText(tcall.raw)
        prob == tcall.no_speech_prob
    IN  (/\ ReturnedFromEngine
         /\ text # << >>
         /\ ~ProbExceeds(prob, NO_SPEECH_SUPPRESS_THRESHOLD))
        => tcall.result =
              IF /\ NormalizeText(text) \in KNOWN_LOW_ENERGY_HALLUCINATIONS_NORMALIZED
                 /\ \/ RmsBelow(tcall.rms, MIN_RMS_FOR_KNOWN_HALLUCINATIONS)
                    \/ ProbExceeds(prob, NO_SPEECH_HALLUCINATION_THRESHOLD)
              THEN << >>
              ELSE text

\* C25, amended: the same for a decoded text whose normalized form is not
\* empty and a no-speech probability absent or BELOW 0.78, the known phrase
\* being dropped when RMS < 230 or the probability is AT OR ABOVE 0.45; the
\* text returned is the trimmed text, not its normalized form.
C25_KnownPhraseRule ==
    LET text == DecodedText(tcall.raw)
        prob == tcall.no_speech_prob
    IN  (/\ ReturnedFromEngine
         /\ text # << >>
         /\ NormalizeText(text) # << >>
         /\ \/ prob = NoProb
            \/ FloatLess(prob[1], Hundredths(NO_SPEECH_SUPPRESS_THRESHOLD)))
        => tcall.result =
              IF /\ NormalizeText(text) \in KNOWN_LOW_ENERGY_HALLUCINATIONS_NORMALIZED
                 /\ \/ RmsBelow(tcall.rms, MIN_RMS_FOR_KNOWN_HALLUCINATIONS)
                    \/ /\ prob # NoProb
                       /\ ~FloatLess(prob[1],
                                     Hundredths(NO_SPEECH_HALLUCINATION_THRESHOLD))
              THEN << >>
              ELSE text

\* C25 witness: a known phrase written with capitals, accents and punctuation
\* came back from the engine on audio of RMS 230 or more with a no-speech
\* probability of exactly 0.45, and was dropped
C25_Witness ==
    /\ ReturnedFromEngine
    /\ tcall.raw.text = <<"¡", "S", "u", "s", "c", "r", "í", "b", "e", "t", "e", " ", "a", " ", "m", "i", " ", "c", "a", "n", "a", "l", "!">>
    /\ ~RmsBelow(tcall.rms, MIN_RMS_FOR_KNOWN_HALLUCINATIONS)
    /\ tcall.no_speech_prob = <<Hundredths(45)>>
    /\ tcall.result = << >>

\* C26: whenever the averaged no-speech probability of the engine's result is
\* present and exceeds 0.78, the call returns the empty text, whatever the
\* decoded text and the RMS.
C26_HighNoSpeechSuppressed ==
    (/\ tcall.pc = "returned"
     /\ ProbExceeds(tcall.no_speech_prob, NO_SPEECH_SUPPRESS_THRESHOLD))
    => tcall.result = << >>

\* C26 witness: the engine ran on loud audio and decoded a text that is no
\* known phrase; the probabilities of the result and of its segments, none
\* of which alone decides, average over 0.78 and the text was dropped
C26_Witness ==
    /\ ReturnedFromEngine
    /\ ~RmsBelow(tcall.rms, MIN_RMS_FOR_KNOWN_HALLUCINATIONS)
    /\ tcall.raw.text = <<"h", "o", "l", "a", " ", "e", "q", "u", "i", "p", "o">>
    /\ tcall.raw.no_speech_prob = <<77>>
    /\ Len(tcall.raw.segments) = 2
    /\ tcall.raw.segments[1].no_speech_prob = <<100>>
    /\ tcall.raw.segments[2].no_speech_prob = <<60>>
    /\ tcall.result = << >>

\* C27: for a task without samples, or whose samples have an RMS below 90
\* (the RMS being the float32 that line 221 computes), the engine is never
\* invoked and the call returns the empty text.
C27_QuietAudioSkipsEngine ==
    (/\ tcall.pc \notin {"none", "entry"}
     /\ \/ Len(tcall.pcm) = 0
        \/ RmsBelow(tcall.rms, MIN_RMS_FOR_TRANSCRIPTION))
    => /\ tcall.invocations = 0
       /\ tcall.pc = "returned"
       /\ tcall.result = << >>

\* C27 witness: the call returned for samples of RMS 89.5, for which the
\* engine would have decoded a text and given no probability
C27_Witness ==
    /\ tcall.pc = "returned"
    /\ tcall.pcm = <<89, 90>>
    /\ tcall.raw.text = <<"h", "o", "l", "a", " ", "e", "q", "u", "i", "p", "o">>
    /\ tcall.raw.no_speech_prob = NoProb
    /\ tcall.raw.segments = << >>
    /\ tcall.invocations = 0
    /\ tcall.result = << >>

\* ---------------------------------------------------------------------------
\* The command line (claims C28 to C30)
\* ---------------------------------------------------------------------------
\* C28: a run of the command line exits with 0 on success, 2 when the audio
\* file was not found, 3 when ffmpeg was missing, 4 when the audio was invalid
\* (an empty file, no audio stream) and 1 after any other failure.
C28_ExitCodeByOutcome ==
    cli.pc = "exited"
    => cli.exit_code =
          CASE cli.failure = "none" -> EXIT_OK
            [] cli.failure = "missing" -> EXIT_FILE_NOT_FOUND
            [] cli.failure = "ffmpeg_missing" -> EXIT_FFMPEG_MISSING
            [] cli.failure \in {"empty", "no_audio_stream"} -> EXIT_INVALID_AUDIO
            [] OTHER -> EXIT_ERROR

\* C29: when check_ffmpeg_installed fails, transcribe raises
\* FFmpegNotFoundError and neither validate_audio_file nor the engine is
\* called; when validate_audio_file raises, transcribe raises that exception
\* and the engine is never called.
C29_FfmpegCheckedFirst ==
    /\ (cli.pc # "none" /\ cli.ffmpeg # "installed")
       => /\ cli.validated = 0
          /\ cli.calls = << >>
          /\ cli.pc # "check_ffmpeg" => cli.raised = "FFmpegNotFoundError"
    /\ (cli.validated > 0 /\ ValidateAudioFile(cli.file, cli.ffprobe) # "none")
       => /\ cli.calls = << >>
          /\ cli.raised = ValidateAudioFile(cli.file, cli.ffprobe)

\* C29 witness: a run without ffmpeg, on a file that does not exist either,
\* ended with FFmpegNotFoundError and the file was never looked at
C29_Witness ==
    /\ cli.pc = "exited"
    /\ cli.ffmpeg = "missing"
    /\ cli.file = "missing"
    /\ cli.raised = "FFmpegNotFoundError"
    /\ cli.validated = 0
    /\ cli.calls = << >>

\* C30: the engine is called at most twice; once when its first call
\* returns; and when its first call raises TypeError, exactly once more,
\* without word_timestamps, the result of that second call being the one that
\* is mapped and returned.
C30_TypeErrorFallbackOnce ==
    /\ Len(cli.calls) <= 2
    /\ cli.pc \in {"map", "returned", "raised", "exited"} /\ cli.calls # << >>
       => IF cli.engine[1].raises = "TypeError"
          THEN /\ Len(cli.calls) = 2
               /\ cli.calls[2] = "no word_timestamps"
               /\ (cli.engine[2].raises = "none" /\ cli.pc \in {"returned", "exited"})
                  => cli.result = MapTranscription(cli.engine[2].raw)
          ELSE /\ Len(cli.calls) = 1
               /\ (cli.engine[1].raises = "none" /\ cli.pc \in {"returned", "exited"})
                  => cli.result = MapTranscription(cli.engine[1].raw)

\* C30 witness: the caller asked for word timestamps, the first call raised
\* TypeError, the second one was made without the parameter and transcribe
\* returned its result, mapped
C30_Witness ==
    /\ cli.pc = "returned"
    /\ cli.engine[1].raises = "TypeError"
    /\ cli.engine[2].raises = "none"
    /\ cli.engine[2].raw.language = "en"
    /\ cli.calls = <<"word_timestamps=True", "no word_timestamps">>
    /\ cli.result = MapTranscription(cli.engine[2].raw)
    /\ cli.result.segments[1].words[1].confidence = 95

\* ---------------------------------------------------------------------------
\* Session lifecycle (claims C31 to C34)
\* ---------------------------------------------------------------------------
\* persist_session was called with the session's start, audio, transcript
\* and title as they are now
PersistedAsIs ==
    \E i \in DOMAIN persisted :
       /\ persisted[i].started_at = session_started_at
       /\ persisted[i].audio_pcm = session_audio
       /\ persisted[i].finalized_messages = finalized_messages
       /\ persisted[i].title = title

\* a step that clears or replaces the audio or the transcript of the session
DiscardStep ==
    \/ session_started_at' # session_started_at
    \/ Len(session_audio') < Len(session_audio)
    \/ Len(finalized_messages') < Len(finalized_messages)

\* C31: a step that clears or replaces the audio or the transcript of an
\* ACTIVE session is taken only after that audio and transcript were handed
\* to persist_session.
C31_PersistedBeforeDiscarded ==
    [][(session_started /\ DiscardStep) => PersistedAsIs]_vars

\* the Final tasks built from frames received in a session
FinalsOfSession(session) ==
    {enqueued[j].task : j \in {k \in DOMAIN enqueued :
                                  /\ enqueued[k].task.kind = "final"
                                  /\ enqueued[k].session = session}}

\* C32: every entry of a transcript handed to persist_session carries the
\* segment_id of a Final task built from frames of that very session, and a
\* title is handed over only for a session that has such a Final.
C32_EntriesFromOwnSession ==
    \A i \in DOMAIN persisted :
       /\ \A k \in DOMAIN persisted[i].finalized_messages :
             \E task \in FinalsOfSession(persisted[i].started_at) :
                task.segment_id = persisted[i].finalized_messages[k].segment_id
       /\ persisted[i].title # << >>
          => FinalsOfSession(persisted[i].started_at) # {}

\* C33: persist_session is never running for a session.stop received while
\* IDLE, no two session.stop hand off the same session.start, and no more
\* session.saved events are sent than sessions were started.
C33_IdleStopPersistsNothing ==
    /\ hpc = "stop_persist" => session_started
    /\ \A i, j \in DOMAIN persisted :
          (/\ persisted[i].path = "stop"
           /\ persisted[j].path = "stop"
           /\ persisted[i].started_at = persisted[j].started_at) => i = j
    /\ Cardinality(SentOfType("session.saved")) <= session_started_at

\* C34: whenever the session is IDLE, before the first session.start or
\* after a session.stop has completed, the queue holds no SegmentTask and no
\* transcription call is in flight.
C34_IdleMeansDrained ==
    ~session_started
    => /\ \A i \in DOMAIN queue : queue[i] = NoTask
       /\ in_flight = 0

\* C34 witness: the session is IDLE again after a session.stop that had to
\* wait for the Worker: tasks were transcribed, the session was saved
C34_Witness ==
    /\ ~session_started
    /\ hpc = "recv"
    /\ conn_open
    /\ Len(engine_calls) >= 2
    /\ finalized_messages # << >>
    /\ Len(persisted) = 1
    /\ Cardinality(SentOfType("session.saved")) = 1

\* ---------------------------------------------------------------------------
\* Events and tasks (claims C35 to C40)
\* ---------------------------------------------------------------------------
\* C35: no transcript.partial event with a segment_id is sent after a
\* transcript.final event with the same segment_id.
C35_NoPartialAfterFinal ==
    \A i, j \in DOMAIN sent :
       (/\ i < j
        /\ sent[i].type = "transcript.final"
        /\ sent[j].type = "transcript.partial")
       => sent[j].segment_id # sent[i].segment_id

\* C35 witness: a partial and the final of one utterance were sent, and
\* after them a partial of the next utterance
C35_Witness ==
    \E i, j, k \in DOMAIN sent :
       /\ i < j /\ j < k
       /\ sent[i].type = "transcript.partial"
       /\ sent[j].type = "transcript.final"
       /\ sent[j].segment_id = sent[i].segment_id
       /\ sent[k].type = "transcript.partial"
       /\ sent[k].segment_id = sent[j].segment_id + 1

\* the frames a task carries
FramesOf(task) == {task.pcm_bytes[n] : n \in DOMAIN task.pcm_bytes}

\* C36: no frame pushed to the segmenter is carried by two different Final
\* tasks.
C36_FinalsDisjoint ==
    \A i, j \in DOMAIN produced :
       (/\ i < j
        /\ IsFinal(produced[i].task)
        /\ IsFinal(produced[j].task))
       => FramesOf(produced[i].task) \cap FramesOf(produced[j].task) = {}

PartialsQueued == Cardinality({i \in DOMAIN queue : queue[i] # NoTask /\ queue[i].kind = "partial"})

FinalsQueued == Cardinality({i \in DOMAIN queue : queue[i] # NoTask /\ queue[i].kind = "final"})

\* C37: the dispatch queue never holds more than MAX_PARTIAL_BACKLOG Partial
\* tasks, in every interleaving of handler and Worker and whatever the number
\* of Final tasks queued.
C37_PartialBacklogBounded == PartialsQueued <= MAX_PARTIAL_BACKLOG

\* the queue holds MAX_PARTIAL_BACKLOG Partial tasks while the Worker is busy
C37_Witness == PartialsQueued = MAX_PARTIAL_BACKLOG /\ in_flight # 0

\* the Final tasks returned so far with the given cause
FinalsBy(cause) ==
    {produced[i].task : i \in {k \in DOMAIN produced :
                                 IsFinal(produced[k].task) /\ produced[k].cause = cause}}

\* C38: every Final task returned by the segmenter, by the hangover, by the
\* cap or by flush(), carries at least min_utterance_frames and at most
\* max_utterance_frames frames.
C38_FinalLengthBounds ==
    \A i \in DOMAIN produced :
        IsFinal(produced[i].task) =>
            /\ Len(produced[i].task.pcm_bytes) >= min_utterance_frames
            /\ Len(produced[i].task.pcm_bytes) <= max_utterance_frames

\* a cap Final of max_utterance_frames frames was returned, and a flush Final
\* after it
C38_Witness ==
    /\ \E t \in FinalsBy("cap") : Len(t.pcm_bytes) = max_utterance_frames
    /\ FinalsBy("flush") # {}

\* C39: after every push_frame, flush and reset has returned: in SILENCE the
\* utterance buffer is empty and the silence run is 0; in SPEECH the buffer
\* holds fewer than max_utterance_frames frames, the silence run is below
\* silence_hangover_frames and the partial cursor is at most the length of the
\* buffer; and the pre-roll never holds more than pre_roll_frames frames.
C39_SegmenterStateInvariant ==
    /\ IF segmenter.in_speech
       THEN /\ Len(segmenter.speech_frames) < max_utterance_frames
            /\ segmenter.silence_run < silence_hangover_frames
            /\ segmenter.last_partial_at <= Len(segmenter.speech_frames)
       ELSE /\ segmenter.speech_frames = << >>
            /\ segmenter.silence_run = 0
    /\ Len(segmenter.pre_roll) <= pre_roll_frames

\* push_frame returned in SPEECH one frame below the cap, after a Partial,
\* with a full pre-roll
C39_Witness ==
    /\ op.call = "push_frame"
    /\ segmenter.in_speech
    /\ Len(segmenter.speech_frames) = max_utterance_frames - 1
    /\ segmenter.last_partial_at > 0
    /\ Len(segmenter.pre_roll) = pre_roll_frames

\* the Worker holds an item it has dequeued and not yet marked done
Processing == wpc \notin {"get", "done"}

\* the handler is suspended in queue.join()
Draining == hpc \in {"stop_join", "fin_join"}

\* C40: the Worker marks each dequeued item done exactly once on every path
\* (staleness skip, empty text, success, engine error, connection closed,
\* shutdown sentinel): the count of outstanding work is always the number of
\* items still queued plus the item being processed, and a drain wait returns
\* exactly when that count is zero.
C40_OutstandingWorkCounted ==
    /\ unfinished_tasks = Len(queue) + (IF Processing THEN 1 ELSE 0)
    /\ Draining =>
          (ENABLED (StopJoined \/ FinallyJoined) <=> (queue = << >> /\ ~Processing))

\* the Worker ended on the sentinel after a stale Partial it skipped and a
\* transcript it sent, the drain wait of session.stop having returned
C40_Witness ==
    /\ wpc = "done"
    /\ hpc = "done"
    /\ queue = << >>
    /\ unfinished_tasks = 0
    /\ \E i \in DOMAIN persisted : persisted[i].path = "stop"
    /\ \E i \in DOMAIN results : results[i].text # << >>
    /\ \E i \in DOMAIN enqueued :
          /\ IsPartial(enqueued[i].task)
          /\ \A j \in DOMAIN engine_calls : engine_calls[j] # enqueued[i].task

====
